---- MODULE Spec2Model ----
(***************************************************************************)
(* The prefer-bind rule (lib/rules/prefer-bind.js) as a state machine.     *)
(*                                                                         *)
(* A run lints one program: the host validates the configured options      *)
(* against the rule's schema, create() resolves them, the host then        *)
(* calls the rule's two handlers on every arrow function and function      *)
(* expression of the tree in source order, and each handler appends at     *)
(* most one finding.  After the traversal one suggestion may be applied to *)
(* the text and the result is linted again.                                *)
(*                                                                         *)
(* A syntax node is a record with the ESTree field names the rule reads.   *)
(* Source text is a sequence of lexical tokens (whitespace is not          *)
(* modelled).  A node is referred to by its path from the root, which      *)
(* gives node identity (parent.arguments[0] !== node compares identity,    *)
(* not structure) and node.parent.                                         *)
(***************************************************************************)
EXTENDS Integers, Sequences, FiniteSets, TLC

\* Largest number of arguments of the forwarded call.
MaxArgs == 2

(***************************************************************************)
(* ESTree nodes                                                            *)
(***************************************************************************)
Null == [null |-> TRUE]
IsNull(v) == "null" \in DOMAIN v

Identifier(n) == [type |-> "Identifier", name |-> n]
PrivateIdentifier(n) == [type |-> "PrivateIdentifier", name |-> n]
ThisExpression == [type |-> "ThisExpression"]
Literal(raw) == [type |-> "Literal", raw |-> raw]
MemberExpression(object, property, computed) ==
    [type |-> "MemberExpression", object |-> object, property |-> property,
     computed |-> computed]
CallExpression(callee, arguments) ==
    [type |-> "CallExpression", callee |-> callee, arguments |-> arguments]
AwaitExpression(argument) == [type |-> "AwaitExpression", argument |-> argument]
ExpressionStatement(expression) ==
    [type |-> "ExpressionStatement", expression |-> expression]
ReturnStatement(argument) == [type |-> "ReturnStatement", argument |-> argument]
BlockStatement(body) == [type |-> "BlockStatement", body |-> body]
ArrowFunctionExpression(params, async, body) ==
    [type |-> "ArrowFunctionExpression", params |-> params, async |-> async,
     generator |-> FALSE, id |-> Null, body |-> body]
FunctionExpression(id, params, async, generator, body) ==
    [type |-> "FunctionExpression", params |-> params, async |-> async,
     generator |-> generator, id |-> id, body |-> body]
VariableDeclarator(name, init) ==
    [type |-> "VariableDeclarator", id |-> Identifier(name), init |-> init]
ObjectExpression(properties) ==
    [type |-> "ObjectExpression", properties |-> properties]
\* A method ({ m() {} }), getter or setter of an object literal: kind is
\* "init", "get" or "set" and the value is a function expression.
Property(kind, name, value) ==
    [type |-> "Property", kind |-> kind, key |-> Identifier(name),
     value |-> value, method |-> kind = "init"]
\* The value of a method, getter or setter: a FunctionExpression node whose
\* range starts at its parameter list (there is no function keyword).
MethodValue(params, body) ==
    [type |-> "FunctionExpression", params |-> params, async |-> FALSE,
     generator |-> FALSE, id |-> Null, body |-> body, method |-> TRUE]

\* What the parser gives for a text that is not a program.
SyntaxError == [type |-> "SyntaxError"]

\* Stands for the node at a path while its position in the text is looked up.
Marker == [type |-> "Marker"]

IsFunction(node) ==
    node.type \in {"ArrowFunctionExpression", "FunctionExpression"}

(***************************************************************************)
(* Children and paths.  A selector names a field and, for the list fields, *)
(* a 1-based index (0 for a single child).                                 *)
(***************************************************************************)
Sel(f, i) == [f |-> f, i |-> i]

Child(node, s) == IF s.i = 0 THEN node[s.f] ELSE node[s.f][s.i]

SetChild(node, s, new) ==
    IF s.i = 0 THEN [node EXCEPT ![s.f] = new]
    ELSE [node EXCEPT ![s.f] = [@ EXCEPT ![s.i] = new]]

ListSels(f, n) == [i \in 1..n |-> Sel(f, i)]

\* The children of a node in source order.
ChildSels(node) ==
    CASE node.type = "MemberExpression" -> <<Sel("object", 0), Sel("property", 0)>>
      [] node.type = "CallExpression" ->
            <<Sel("callee", 0)>> \o ListSels("arguments", Len(node.arguments))
      [] node.type = "AwaitExpression" -> <<Sel("argument", 0)>>
      [] node.type = "ReturnStatement" -> <<Sel("argument", 0)>>
      [] node.type = "ExpressionStatement" -> <<Sel("expression", 0)>>
      [] node.type = "BlockStatement" -> ListSels("body", Len(node.body))
      [] node.type = "VariableDeclarator" -> <<Sel("init", 0)>>
      [] node.type = "ObjectExpression" ->
            ListSels("properties", Len(node.properties))
      [] node.type = "Property" -> <<Sel("value", 0)>>
      [] IsFunction(node) -> <<Sel("body", 0)>>
      [] OTHER -> <<>>

RECURSIVE NodeAt(_, _)
NodeAt(root, path) ==
    IF path = <<>> THEN root ELSE NodeAt(Child(root, Head(path)), Tail(path))

RECURSIVE ReplaceAt(_, _, _)
ReplaceAt(root, path, new) ==
    IF path = <<>> THEN new
    ELSE SetChild(root, Head(path),
                  ReplaceAt(Child(root, Head(path)), Tail(path), new))

Front(path) == SubSeq(path, 1, Len(path) - 1)
Last(path) == path[Len(path)]

(***************************************************************************)
(* sourceCode.getText(node): the tokens of a node.                         *)
(***************************************************************************)
RECURSIVE Flatten(_)
Flatten(ss) == IF ss = <<>> THEN <<>> ELSE Head(ss) \o Flatten(Tail(ss))

RECURSIVE Join(_, _)
Join(ss, sep) ==
    IF ss = <<>> THEN <<>>
    ELSE IF Len(ss) = 1 THEN ss[1]
    ELSE ss[1] \o sep \o Join(Tail(ss), sep)

RECURSIVE getText(_)
getText(node) ==
    CASE node.type \in {"Identifier", "PrivateIdentifier"} -> <<node.name>>
      [] node.type = "Marker" -> <<"<node>">>
      [] node.type = "ThisExpression" -> <<"this">>
      [] node.type = "Literal" -> <<node.raw>>
      [] node.type = "MemberExpression" ->
            IF node.computed
            THEN getText(node.object) \o <<"[">> \o getText(node.property) \o <<"]">>
            ELSE getText(node.object) \o <<".">> \o getText(node.property)
      [] node.type = "CallExpression" ->
            getText(node.callee) \o <<"(">>
            \o Join([i \in 1..Len(node.arguments) |-> getText(node.arguments[i])], <<",">>)
            \o <<")">>
      [] node.type = "AwaitExpression" -> <<"await">> \o getText(node.argument)
      [] node.type = "ReturnStatement" ->
            <<"return">> \o getText(node.argument) \o <<";">>
      [] node.type = "ExpressionStatement" ->
            getText(node.expression) \o <<";">>
      [] node.type = "BlockStatement" ->
            <<"{">> \o Flatten([i \in 1..Len(node.body) |-> getText(node.body[i])])
            \o <<"}">>
      [] node.type = "VariableDeclarator" ->
            <<"const", node.id.name, "=">> \o getText(node.init)
      [] node.type = "ObjectExpression" ->
            <<"{">>
            \o Join([i \in 1..Len(node.properties) |-> getText(node.properties[i])],
                    <<",">>)
            \o <<"}">>
      [] node.type = "Property" ->
            (IF node.kind = "init" THEN <<>> ELSE <<node.kind>>)
            \o <<node.key.name>> \o getText(node.value)
      [] node.type = "ArrowFunctionExpression" ->
            (IF node.async THEN <<"async">> ELSE <<>>)
            \o <<"(">> \o Join([i \in 1..Len(node.params) |-> <<node.params[i]>>], <<",">>)
            \o <<")", "=>">> \o getText(node.body)
      [] node.type = "FunctionExpression" ->
            (IF node.async THEN <<"async">> ELSE <<>>)
            \o (IF "method" \in DOMAIN node THEN <<>> ELSE <<"function">>)
            \o (IF node.generator THEN <<"*">> ELSE <<>>)
            \o (IF IsNull(node.id) THEN <<>> ELSE <<node.id.name>>)
            \o <<"(">> \o Join([i \in 1..Len(node.params) |-> <<node.params[i]>>], <<",">>)
            \o <<")">> \o getText(node.body)

\* node.range: the first and last token of the node at path in the text of root.
RECURSIVE IndexOf(_, _)
IndexOf(tok, toks) == IF Head(toks) = tok THEN 1 ELSE 1 + IndexOf(tok, Tail(toks))

RangeOf(root, path) ==
    LET node == NodeAt(root, path)
        start == IndexOf("<node>", getText(ReplaceAt(root, path, Marker)))
    IN <<start, start + Len(getText(node)) - 1>>

\* fixer.replaceText on the text: the tokens of the range give way to toks.
replaceText(text, range, toks) ==
    SubSeq(text, 1, range[1] - 1) \o toks \o SubSeq(text, range[2] + 1, Len(text))

\* The function nodes of a tree in traversal order (a node before its
\* descendants, siblings in source order), as paths from root.
RECURSIVE FunctionPaths(_, _)
FunctionPaths(node, path) ==
    LET sels == ChildSels(node)
    IN (IF IsFunction(node) THEN <<path>> ELSE <<>>)
       \o Flatten([i \in 1..Len(sels) |->
                     FunctionPaths(Child(node, sels[i]), Append(path, sels[i]))])

(***************************************************************************)
(* The rule: create(context) and the functions it closes over.             *)
(***************************************************************************)
\* context.options[0]: each option is absent (<<>>) or given (<<value>>).
Absent == <<>>
Given(v) == <<v>>

DefaultLongLivedContexts ==
    <<"addEventListener", "setTimeout", "setInterval", "on", "once", "subscribe">>

\* options.x || fallback, for a boolean option.
OrBool(opt, fallback) == IF opt = Absent \/ ~opt[1] THEN fallback ELSE opt[1]

\* Mutant: an empty array falls back as an absent one does.
OrArray_EmptyFallsBack(opt, fallback) ==
    IF opt = Absent \/ opt[1] = <<>> THEN fallback ELSE opt[1]

\* Mutant: a supplied array is added to the fallback.
OrArray_Extends(opt, fallback) == IF opt = Absent THEN fallback ELSE fallback \o opt[1]

\* options.x || fallback, for an array option: every array is truthy.
OrArray(opt, fallback) == IF opt = Absent THEN fallback ELSE opt[1]

create(options) ==
    [onlyInLongLivedContexts |-> OrBool(options.onlyInLongLivedContexts, FALSE),
     longLivedContexts |-> OrArray(options.longLivedContexts, DefaultLongLivedContexts),
     includeAsync |-> OrBool(options.includeAsync, FALSE)]

includes(list, v) == \E i \in 1..Len(list) : list[i] = v

\* Mutant: a computed access object[name](...) is accepted too.
getMethodCall_Computed(node, allowArgs) ==
    IF /\ node.type = "CallExpression"
       /\ node.callee.type = "MemberExpression"
    THEN IF ~allowArgs /\ Len(node.arguments) > 0 THEN Null
         ELSE IF node.callee.property.type = "Identifier"
              THEN [object |-> node.callee.object,
                    method |-> node.callee.property.name,
                    arguments |-> node.arguments]
              ELSE Null
    ELSE Null

\* Mutant: arguments are accepted whether or not allowArgs is set.
getMethodCall_AnyArgs(node, allowArgs) ==
    IF /\ node.type = "CallExpression"
       /\ node.callee.type = "MemberExpression"
       /\ ~node.callee.computed
       /\ node.callee.property.type = "Identifier"
    THEN [object |-> node.callee.object,
          method |-> node.callee.property.name,
          arguments |-> node.arguments]
    ELSE Null

getMethodCall(node, allowArgs) ==
    IF /\ node.type = "CallExpression"
       /\ node.callee.type = "MemberExpression"
       /\ ~node.callee.computed
    THEN IF ~allowArgs /\ Len(node.arguments) > 0 THEN Null
         ELSE IF node.callee.property.type = "Identifier"
              THEN [object |-> node.callee.object,
                    method |-> node.callee.property.name,
                    arguments |-> node.arguments]
              ELSE Null
    ELSE Null

timerFunctions == <<"setTimeout", "setInterval">>

\* parent.arguments.includes(node): node is one of the parent's arguments.
IsArgument(path) == Last(path).f = "arguments"

\* Mutant: every enclosing call is looked up, not the parent alone.
isInLongLivedContext_Ancestors(cfg, root, path) ==
    \E n \in 0..(Len(path) - 1) :
        LET ancestor == NodeAt(root, SubSeq(path, 1, n))
        IN /\ ancestor.type = "CallExpression"
           /\ \/ /\ ancestor.callee.type = "Identifier"
                 /\ includes(cfg.longLivedContexts, ancestor.callee.name)
              \/ /\ ancestor.callee.type = "MemberExpression"
                 /\ ancestor.callee.property.type = "Identifier"
                 /\ includes(cfg.longLivedContexts, ancestor.callee.property.name)

\* Mutant: only a bare identifier callee is looked up; target.name(...) is not.
isInLongLivedContext_BareOnly(cfg, root, path) ==
    LET parent == NodeAt(root, Front(path))
    IN /\ parent.type = "CallExpression"
       /\ Last(path).f = "arguments"
       /\ parent.callee.type = "Identifier"
       /\ includes(cfg.longLivedContexts, parent.callee.name)

isInLongLivedContext(cfg, root, path) ==
    LET parent == NodeAt(root, Front(path))
    IN IF parent.type = "CallExpression" /\ IsArgument(path)
       THEN LET callee == parent.callee
            IN IF callee.type = "Identifier"
               THEN includes(cfg.longLivedContexts, callee.name)
               ELSE IF /\ callee.type = "MemberExpression"
                       /\ callee.property.type = "Identifier"
                    THEN includes(cfg.longLivedContexts, callee.property.name)
                    ELSE FALSE
       ELSE FALSE

\* Mutant: only a bare identifier gives a name.
CalleeName_BareOnly(callee) ==
    IF callee.type = "Identifier" THEN [name |-> callee.name] ELSE Null

\* The name getTimerContext reads off a callee, Null when it reads none.
CalleeName(callee) ==
    IF callee.type = "Identifier" THEN [name |-> callee.name]
    ELSE IF callee.type = "MemberExpression" /\ callee.property.type = "Identifier"
         THEN [name |-> callee.property.name]
         ELSE Null

\* Mutant: the closure may stand in any argument slot.
getTimerContext_AnySlot(root, path) ==
    LET parent == NodeAt(root, Front(path))
    IN IF parent.type # "CallExpression" THEN Null
       ELSE IF ~IsArgument(path) THEN Null
       ELSE LET n == CalleeName(parent.callee)
            IN IF IsNull(n) THEN Null
               ELSE IF ~includes(timerFunctions, n.name) THEN Null
               ELSE [name |-> n.name,
                     parent |-> [path |-> Front(path), node |-> parent],
                     callbackIndex |-> 0,
                     delayArg |-> IF Len(parent.arguments) >= 2
                                  THEN parent.arguments[2] ELSE Null]

\* Mutant: a computed callee gives no name.
getTimerContext_NonComputed(root, path) ==
    LET parent == NodeAt(root, Front(path))
    IN IF parent.type # "CallExpression" THEN Null
       ELSE IF ~(IsArgument(path) /\ Last(path).i = 1) THEN Null
       ELSE LET n == IF parent.callee.type = "MemberExpression" /\ parent.callee.computed
                     THEN Null ELSE CalleeName(parent.callee)
            IN IF IsNull(n) THEN Null
               ELSE IF ~includes(timerFunctions, n.name) THEN Null
               ELSE [name |-> n.name,
                     parent |-> [path |-> Front(path), node |-> parent],
                     callbackIndex |-> 0,
                     delayArg |-> IF Len(parent.arguments) >= 2
                                  THEN parent.arguments[2] ELSE Null]

\* A node reference held in a result is the node and, for its identity, its path.
getTimerContext(root, path) ==
    LET parent == NodeAt(root, Front(path))
    IN IF parent.type # "CallExpression" THEN Null
       ELSE IF ~(IsArgument(path) /\ Last(path).i = 1) THEN Null
       ELSE LET n == CalleeName(parent.callee)
            IN IF IsNull(n) THEN Null
               ELSE IF ~includes(timerFunctions, n.name) THEN Null
               ELSE [name |-> n.name,
                     parent |-> [path |-> Front(path), node |-> parent],
                     callbackIndex |-> 0,
                     delayArg |-> IF Len(parent.arguments) >= 2
                                  THEN parent.arguments[2] ELSE Null]

\* Mutant: the replacement is again a closure around the call.
bindExpr_Thunk(methodCall) ==
    <<"(", ")", "=>">> \o getText(methodCall.object) \o <<".", methodCall.method, "(", ")">>

\* Mutant: the receiver is bound as its last segment instead of its full text.
bindExpr_ShortReceiver(methodCall) ==
    LET objectText == getText(methodCall.object)
    IN objectText \o <<".", methodCall.method, ".", "bind", "(">>
       \o <<objectText[Len(objectText)]>> \o <<")">>

\* `${objectText}.${methodCall.method}.bind(${objectText})`
bindExpr(methodCall) ==
    LET objectText == getText(methodCall.object)
    IN objectText \o <<".", methodCall.method, ".", "bind", "(">> \o objectText \o <<")">>

\* Mutant: the forwarded arguments are placed before the delay.
timerReplacement_ArgsFirst(methodCall, timerContext) ==
    LET argsText == Join([i \in 1..Len(methodCall.arguments) |->
                            getText(methodCall.arguments[i])], <<",">>)
        delayText == IF IsNull(timerContext.delayArg) THEN <<"0">>
                     ELSE getText(timerContext.delayArg)
    IN <<timerContext.name, "(">> \o bindExpr(methodCall) \o <<",">> \o argsText
       \o <<",">> \o delayText \o <<")">>

\* Mutant: the scheduler is emitted as the callee was written.
timerReplacement_CalleeText(methodCall, timerContext) ==
    LET argsText == Join([i \in 1..Len(methodCall.arguments) |->
                            getText(methodCall.arguments[i])], <<",">>)
        delayText == IF IsNull(timerContext.delayArg) THEN <<"0">>
                     ELSE getText(timerContext.delayArg)
    IN getText(timerContext.parent.node.callee) \o <<"(">> \o bindExpr(methodCall) \o <<",">>
       \o delayText \o <<",">> \o argsText \o <<")">>

\* `${timerContext.name}(${bindExpr}, ${delayText}, ${argsText})`
\* Mutant: the scheduler's further arguments are carried over too.
timerReplacement_KeepExtras(methodCall, timerContext) ==
    LET argsText == Join([i \in 1..Len(methodCall.arguments) |->
                            getText(methodCall.arguments[i])], <<",">>)
        delayText == IF IsNull(timerContext.delayArg) THEN <<"0">>
                     ELSE getText(timerContext.delayArg)
        given == timerContext.parent.node.arguments
        extras == Flatten([i \in 1..(Len(given) - 2) |-> <<",">> \o getText(given[i + 2])])
    IN <<timerContext.name, "(">> \o bindExpr(methodCall) \o <<",">> \o delayText
       \o <<",">> \o argsText \o extras \o <<")">>

timerReplacement(methodCall, timerContext) ==
    LET argsText == Join([i \in 1..Len(methodCall.arguments) |->
                            getText(methodCall.arguments[i])], <<",">>)
        delayText == IF IsNull(timerContext.delayArg) THEN <<"0">>
                     ELSE getText(timerContext.delayArg)
    IN <<timerContext.name, "(">> \o bindExpr(methodCall) \o <<",">> \o delayText
       \o <<",">> \o argsText \o <<")">>

\* Mutant: the replacement is also given as the finding's own fix.
Report_AutoFix(nodePath, replacement) ==
    [node |-> nodePath,
     messageId |-> "preferBind",
     data |-> [replacement |-> replacement],
     fix |-> [target |-> nodePath, text |-> replacement],
     suggest |-> <<[messageId |-> "preferBindSuggestion",
                    fix |-> [target |-> nodePath, text |-> replacement]]>>]

\* context.report(...): the finding, with its one suggestion.
Report(nodePath, replacement) ==
    [node |-> nodePath,
     messageId |-> "preferBind",
     data |-> [replacement |-> replacement],
     suggest |-> <<[messageId |-> "preferBindSuggestion",
                    fix |-> [target |-> nodePath, text |-> replacement]]>>]

\* Mutant: the timer form is reported at, and replaces, the closure alone.
reportPreferBind_ClosureOnly(path, methodCall, timerContext) ==
    IF ~IsNull(timerContext) /\ Len(methodCall.arguments) > 0
    THEN Report(path, timerReplacement(methodCall, timerContext))
    ELSE Report(path, bindExpr(methodCall))

\* Mutant: in a timer context the base form too replaces the whole call.
reportPreferBind_WholeCall(path, methodCall, timerContext) ==
    IF ~IsNull(timerContext) /\ Len(methodCall.arguments) > 0
    THEN Report(timerContext.parent.path, timerReplacement(methodCall, timerContext))
    ELSE IF ~IsNull(timerContext) THEN Report(timerContext.parent.path, bindExpr(methodCall))
    ELSE Report(path, bindExpr(methodCall))

reportPreferBind(path, methodCall, timerContext) ==
    IF ~IsNull(timerContext) /\ Len(methodCall.arguments) > 0
    THEN Report(timerContext.parent.path, timerReplacement(methodCall, timerContext))
    ELSE Report(path, bindExpr(methodCall))

\* Mutant: the first statement of a block is taken, however many follow.
ArrowCallExpr_FirstStatement(body) ==
    IF body.type = "CallExpression" THEN body
    ELSE IF body.type = "AwaitExpression" /\ body.argument.type = "CallExpression"
    THEN body.argument
    ELSE IF /\ body.type = "BlockStatement"
            /\ Len(body.body) >= 1
            /\ body.body[1].type = "ExpressionStatement"
    THEN LET expr == body.body[1].expression
         IN IF expr.type = "CallExpression" THEN expr
            ELSE IF expr.type = "AwaitExpression" /\ expr.argument.type = "CallExpression"
            THEN expr.argument
            ELSE Null
    ELSE Null

\* The call a function body forwards to, Null when the body has another shape.
\* An arrow function's body is an expression or a block.
ArrowCallExpr(body) ==
    IF body.type = "CallExpression" THEN body
    ELSE IF body.type = "AwaitExpression" /\ body.argument.type = "CallExpression"
    THEN body.argument
    ELSE IF /\ body.type = "BlockStatement"
            /\ Len(body.body) = 1
            /\ body.body[1].type = "ExpressionStatement"
    THEN LET expr == body.body[1].expression
         IN IF expr.type = "CallExpression" THEN expr
            ELSE IF expr.type = "AwaitExpression" /\ expr.argument.type = "CallExpression"
            THEN expr.argument
            ELSE Null
    ELSE Null

\* Mutant: only an unwrapped call is taken from the only statement.
FunctionCallExpr_CallOnly(body) ==
    IF body.type # "BlockStatement" THEN Null
    ELSE IF Len(body.body) # 1 THEN Null
    ELSE LET stmt == body.body[1]
         IN IF stmt.type # "ExpressionStatement" THEN Null
            ELSE IF stmt.expression.type = "CallExpression" THEN stmt.expression
            ELSE Null

FunctionCallExpr(body) ==
    IF body.type # "BlockStatement" THEN Null
    ELSE IF Len(body.body) # 1 THEN Null
    ELSE LET stmt == body.body[1]
         IN IF stmt.type # "ExpressionStatement" THEN Null
            ELSE IF stmt.expression.type = "CallExpression" THEN stmt.expression
            ELSE IF /\ stmt.expression.type = "AwaitExpression"
                    /\ stmt.expression.argument.type = "CallExpression"
            THEN stmt.expression.argument
            ELSE Null

\* Mutant: a body of another shape is not returned on, and the call that is
\* not there is read: a TypeError.
checkArrowFunction_Unguarded(cfg, root, path) ==
    LET node == NodeAt(root, path)
        callExpr == ArrowCallExpr(node.body)
        timerContext == getTimerContext(root, path)
        methodCall == getMethodCall(callExpr, ~IsNull(timerContext))
    IN IF Len(node.params) # 0 THEN <<>>
       ELSE IF node.async /\ ~cfg.includeAsync THEN <<>>
       ELSE IF IsNull(callExpr) THEN <<[fault |-> "TypeError"]>>
       ELSE IF IsNull(methodCall) THEN <<>>
       ELSE IF /\ cfg.onlyInLongLivedContexts
               /\ ~isInLongLivedContext(cfg, root, path)
               /\ IsNull(timerContext)
       THEN <<>>
       ELSE <<reportPreferBind(path, methodCall, timerContext)>>

\* Mutant: an async arrow function is checked whatever includeAsync says.
checkArrowFunction_AsyncAlways(cfg, root, path) ==
    LET node == NodeAt(root, path)
        callExpr == ArrowCallExpr(node.body)
        timerContext == getTimerContext(root, path)
        methodCall == getMethodCall(callExpr, ~IsNull(timerContext))
    IN IF Len(node.params) # 0 THEN <<>>
       ELSE IF IsNull(callExpr) THEN <<>>
       ELSE IF IsNull(methodCall) THEN <<>>
       ELSE IF /\ cfg.onlyInLongLivedContexts
               /\ ~isInLongLivedContext(cfg, root, path)
               /\ IsNull(timerContext)
       THEN <<>>
       ELSE <<reportPreferBind(path, methodCall, timerContext)>>

\* Each handler yields the sequence of findings it reports: none or one.
checkArrowFunction(cfg, root, path) ==
    LET node == NodeAt(root, path)
        callExpr == ArrowCallExpr(node.body)
        timerContext == getTimerContext(root, path)
        methodCall == getMethodCall(callExpr, ~IsNull(timerContext))
    IN IF Len(node.params) # 0 THEN <<>>
       ELSE IF node.async /\ ~cfg.includeAsync THEN <<>>
       ELSE IF IsNull(callExpr) THEN <<>>
       ELSE IF IsNull(methodCall) THEN <<>>
       ELSE IF /\ cfg.onlyInLongLivedContexts
               /\ ~isInLongLivedContext(cfg, root, path)
               /\ IsNull(timerContext)
       THEN <<>>
       ELSE <<reportPreferBind(path, methodCall, timerContext)>>

\* Mutant: the context is required whatever onlyInLongLivedContexts says.
checkFunctionExpression_ContextAlways(cfg, root, path) ==
    LET node == NodeAt(root, path)
        callExpr == FunctionCallExpr(node.body)
        timerContext == getTimerContext(root, path)
        methodCall == getMethodCall(callExpr, ~IsNull(timerContext))
    IN IF Len(node.params) # 0 THEN <<>>
       ELSE IF node.generator THEN <<>>
       ELSE IF node.async /\ ~cfg.includeAsync THEN <<>>
       ELSE IF IsNull(callExpr) THEN <<>>
       ELSE IF IsNull(methodCall) THEN <<>>
       ELSE IF ~isInLongLivedContext(cfg, root, path) /\ IsNull(timerContext)
       THEN <<>>
       ELSE <<reportPreferBind(path, methodCall, timerContext)>>

\* Mutant: a function expression with a name of its own is passed over.
checkFunctionExpression_AnonymousOnly(cfg, root, path) ==
    LET node == NodeAt(root, path)
        callExpr == FunctionCallExpr(node.body)
        timerContext == getTimerContext(root, path)
        methodCall == getMethodCall(callExpr, ~IsNull(timerContext))
    IN IF ~IsNull(node.id) THEN <<>>
       ELSE IF Len(node.params) # 0 THEN <<>>
       ELSE IF node.generator THEN <<>>
       ELSE IF node.async /\ ~cfg.includeAsync THEN <<>>
       ELSE IF IsNull(callExpr) THEN <<>>
       ELSE IF IsNull(methodCall) THEN <<>>
       ELSE IF /\ cfg.onlyInLongLivedContexts
               /\ ~isInLongLivedContext(cfg, root, path)
               /\ IsNull(timerContext)
       THEN <<>>
       ELSE <<reportPreferBind(path, methodCall, timerContext)>>

\* Mutant: under onlyInLongLivedContexts only the list is consulted.
checkFunctionExpression_ListOnly(cfg, root, path) ==
    LET node == NodeAt(root, path)
        callExpr == FunctionCallExpr(node.body)
        timerContext == getTimerContext(root, path)
        methodCall == getMethodCall(callExpr, ~IsNull(timerContext))
    IN IF Len(node.params) # 0 THEN <<>>
       ELSE IF node.generator THEN <<>>
       ELSE IF node.async /\ ~cfg.includeAsync THEN <<>>
       ELSE IF IsNull(callExpr) THEN <<>>
       ELSE IF IsNull(methodCall) THEN <<>>
       ELSE IF /\ cfg.onlyInLongLivedContexts
               /\ ~isInLongLivedContext(cfg, root, path)
       THEN <<>>
       ELSE <<reportPreferBind(path, methodCall, timerContext)>>

checkFunctionExpression(cfg, root, path) ==
    LET node == NodeAt(root, path)
        callExpr == FunctionCallExpr(node.body)
        timerContext == getTimerContext(root, path)
        methodCall == getMethodCall(callExpr, ~IsNull(timerContext))
    IN IF Len(node.params) # 0 THEN <<>>
       ELSE IF node.generator THEN <<>>
       ELSE IF node.async /\ ~cfg.includeAsync THEN <<>>
       ELSE IF IsNull(callExpr) THEN <<>>
       ELSE IF IsNull(methodCall) THEN <<>>
       ELSE IF /\ cfg.onlyInLongLivedContexts
               /\ ~isInLongLivedContext(cfg, root, path)
               /\ IsNull(timerContext)
       THEN <<>>
       ELSE <<reportPreferBind(path, methodCall, timerContext)>>

\* The calls reportPreferBind makes, in order: the texts of the rewrite are
\* read, then the finding is reported.
reportPreferBindCalls == <<"reportPreferBind", "getSourceText", "context.report">>

\* Mutant: the long-lived context is looked up first, before the body.
checkArrowFunctionCalls_PolicyFirst(cfg, root, path) ==
    LET node == NodeAt(root, path)
        callExpr == ArrowCallExpr(node.body)
        timerContext == getTimerContext(root, path)
        methodCall == getMethodCall(callExpr, ~IsNull(timerContext))
    IN IF Len(node.params) # 0 THEN <<>>
       ELSE IF node.async /\ ~cfg.includeAsync THEN <<>>
       ELSE <<"isInLongLivedContext", "getTimerContext">>
            \o (IF IsNull(callExpr) THEN <<>>
                ELSE <<"getMethodCall">>
                     \o (IF IsNull(methodCall) THEN <<>>
                         ELSE IF /\ cfg.onlyInLongLivedContexts
                                 /\ ~isInLongLivedContext(cfg, root, path)
                                 /\ IsNull(timerContext)
                         THEN <<>>
                         ELSE reportPreferBindCalls))

\* The calls checkArrowFunction makes on a node, in the order it makes them.
\* isInLongLivedContext is the second operand of && and is called only
\* when onlyInLongLivedContexts is set.
checkArrowFunctionCalls(cfg, root, path) ==
    LET node == NodeAt(root, path)
        callExpr == ArrowCallExpr(node.body)
        timerContext == getTimerContext(root, path)
        methodCall == getMethodCall(callExpr, ~IsNull(timerContext))
    IN IF Len(node.params) # 0 THEN <<>>
       ELSE IF node.async /\ ~cfg.includeAsync THEN <<>>
       ELSE IF IsNull(callExpr) THEN <<>>
       ELSE <<"getTimerContext", "getMethodCall">>
            \o (IF IsNull(methodCall) THEN <<>>
                ELSE (IF cfg.onlyInLongLivedContexts
                      THEN <<"isInLongLivedContext">> ELSE <<>>)
                     \o (IF /\ cfg.onlyInLongLivedContexts
                            /\ ~isInLongLivedContext(cfg, root, path)
                            /\ IsNull(timerContext)
                         THEN <<>>
                         ELSE reportPreferBindCalls))

\* The calls checkFunctionExpression makes on a node, in order.
checkFunctionExpressionCalls(cfg, root, path) ==
    LET node == NodeAt(root, path)
        callExpr == FunctionCallExpr(node.body)
        timerContext == getTimerContext(root, path)
        methodCall == getMethodCall(callExpr, ~IsNull(timerContext))
    IN IF Len(node.params) # 0 THEN <<>>
       ELSE IF node.generator THEN <<>>
       ELSE IF node.async /\ ~cfg.includeAsync THEN <<>>
       ELSE IF IsNull(callExpr) THEN <<>>
       ELSE <<"getTimerContext", "getMethodCall">>
            \o (IF IsNull(methodCall) THEN <<>>
                ELSE (IF cfg.onlyInLongLivedContexts
                      THEN <<"isInLongLivedContext">> ELSE <<>>)
                     \o (IF /\ cfg.onlyInLongLivedContexts
                            /\ ~isInLongLivedContext(cfg, root, path)
                            /\ IsNull(timerContext)
                         THEN <<>>
                         ELSE reportPreferBindCalls))

(***************************************************************************)
(* The host's parser, for the grammar of the programs below: the tree of   *)
(* a text, so that the text a fix produces can be linted again.  Each      *)
(* parsing operator returns what it parsed and the tokens left.            *)
(***************************************************************************)
LiteralTokens == {"0", "1000", "'abort'", "'setTimeout'"}
PrivateNames == {"#secret"}

Drop(toks, n) == SubSeq(toks, n + 1, Len(toks))

RECURSIVE ParseExpr(_)
RECURSIVE ParsePostfix(_, _)
RECURSIVE ParseArgs(_)
RECURSIVE ParseParams(_)
RECURSIVE ParseStmts(_)
RECURSIVE ParseProperties(_)

ParsePrimary(toks) ==
    LET t == Head(toks)
    IN IF t = "{"
       THEN LET ps == ParseProperties(Tail(toks))
            IN [node |-> ObjectExpression(ps.nodes), rest |-> ps.rest]
       ELSE [node |-> IF t = "this" THEN ThisExpression
                      ELSE IF t \in LiteralTokens THEN Literal(t)
                      ELSE Identifier(t),
             rest |-> Tail(toks)]

ParsePostfix(left, toks) ==
    IF toks = <<>> THEN [node |-> left, rest |-> toks]
    ELSE IF Head(toks) = "."
    THEN LET prop == IF toks[2] \in PrivateNames THEN PrivateIdentifier(toks[2])
                     ELSE Identifier(toks[2])
         IN ParsePostfix(MemberExpression(left, prop, FALSE), Drop(toks, 2))
    ELSE IF Head(toks) = "["
    THEN LET e == ParseExpr(Tail(toks))
         IN ParsePostfix(MemberExpression(left, e.node, TRUE), Tail(e.rest))
    ELSE IF Head(toks) = "("
    THEN LET a == ParseArgs(Tail(toks))
         IN ParsePostfix(CallExpression(left, a.nodes), a.rest)
    ELSE [node |-> left, rest |-> toks]

\* After "(": the arguments up to and including ")".
ParseArgs(toks) ==
    IF Head(toks) = ")" THEN [nodes |-> <<>>, rest |-> Tail(toks)]
    ELSE LET e == ParseExpr(toks)
         IN IF Head(e.rest) = ","
            THEN LET more == ParseArgs(Tail(e.rest))
                 IN [nodes |-> <<e.node>> \o more.nodes, rest |-> more.rest]
            ELSE [nodes |-> <<e.node>>, rest |-> Tail(e.rest)]

\* After "(": the parameter names up to and including ")".
ParseParams(toks) ==
    IF Head(toks) = ")" THEN [names |-> <<>>, rest |-> Tail(toks)]
    ELSE IF Head(toks) = "," THEN ParseParams(Tail(toks))
    ELSE LET more == ParseParams(Tail(toks))
         IN [names |-> <<Head(toks)>> \o more.names, rest |-> more.rest]

\* After "{": the statements up to and including "}".
ParseStmts(toks) ==
    IF Head(toks) = "}" THEN [nodes |-> <<>>, rest |-> Tail(toks)]
    ELSE LET ret == Head(toks) = "return"
             e == ParseExpr(IF ret THEN Tail(toks) ELSE toks)
             more == ParseStmts(Tail(e.rest))
             stmt == IF ret THEN ReturnStatement(e.node) ELSE ExpressionStatement(e.node)
         IN [nodes |-> <<stmt>> \o more.nodes, rest |-> more.rest]

\* After "{" of an object literal: its methods, getters and setters up to
\* and including "}".  A key that no parameter list follows, or a parameter
\* list that no block follows, is a syntax error, and nothing after it is
\* parsed.
ParseProperties(toks) ==
    IF Head(toks) = "}" THEN [nodes |-> <<>>, rest |-> Tail(toks)]
    ELSE IF Head(toks) = "," THEN ParseProperties(Tail(toks))
    ELSE LET accessor == Head(toks) \in {"get", "set"} /\ toks[2] # "("
             kind == IF accessor THEN Head(toks) ELSE "init"
             t1 == IF accessor THEN Tail(toks) ELSE toks
         IN IF t1[2] # "(" THEN [nodes |-> <<SyntaxError>>, rest |-> <<>>]
            ELSE LET ps == ParseParams(Drop(t1, 2))
                 IN IF Head(ps.rest) # "{"
                    THEN [nodes |-> <<SyntaxError>>, rest |-> <<>>]
                    ELSE LET b == ParseStmts(Tail(ps.rest))
                             more == ParseProperties(b.rest)
                         IN [nodes |-> <<Property(kind, Head(t1),
                                                  MethodValue(ps.names,
                                                              BlockStatement(b.nodes)))>>
                                       \o more.nodes,
                             rest |-> more.rest]

ParseExpr(toks) ==
    LET async == Head(toks) = "async"
        t1 == IF async THEN Tail(toks) ELSE toks
    IN IF Head(t1) = "function"
       THEN LET generator == t1[2] = "*"
                t2 == Drop(t1, IF generator THEN 2 ELSE 1)
                named == Head(t2) # "("
                ps == ParseParams(Drop(t2, IF named THEN 2 ELSE 1))
                b == ParseStmts(Tail(ps.rest))
            IN [node |-> FunctionExpression(IF named THEN Identifier(Head(t2)) ELSE Null,
                                            ps.names, async, generator,
                                            BlockStatement(b.nodes)),
                rest |-> b.rest]
       ELSE IF Head(t1) = "("
       THEN LET ps == ParseParams(Tail(t1))
                t2 == Tail(ps.rest)
            IN IF Head(t2) = "{"
               THEN LET b == ParseStmts(Tail(t2))
                    IN [node |-> ArrowFunctionExpression(ps.names, async,
                                                         BlockStatement(b.nodes)),
                        rest |-> b.rest]
               ELSE LET e == ParseExpr(t2)
                    IN [node |-> ArrowFunctionExpression(ps.names, async, e.node),
                        rest |-> e.rest]
       ELSE IF Head(toks) = "await"
       THEN LET e == ParseExpr(Tail(toks))
            IN [node |-> AwaitExpression(e.node), rest |-> e.rest]
       ELSE LET p == ParsePrimary(toks) IN ParsePostfix(p.node, p.rest)

\* Whether the parser gave up somewhere below node.
RECURSIVE HasSyntaxError(_)
HasSyntaxError(node) ==
    \/ node.type = "SyntaxError"
    \/ LET sels == ChildSels(node)
       IN \E i \in 1..Len(sels) : HasSyntaxError(Child(node, sels[i]))

Parse(text) ==
    LET program == IF Head(text) = "const"
                   THEN VariableDeclarator(text[2], ParseExpr(Drop(text, 3)).node)
                   ELSE ExpressionStatement(ParseExpr(text).node)
    IN IF HasSyntaxError(program) THEN SyntaxError ELSE program

(***************************************************************************)
(* The programs and options a run starts from.                             *)
(***************************************************************************)
Obj == Identifier("obj")
ThisController == MemberExpression(ThisExpression, Identifier("controller"), FALSE)
Method(object, name) == MemberExpression(object, Identifier(name), FALSE)

\* () => a.b(), a forwarding closure nested in a receiver or an argument.
Inner == ArrowFunctionExpression(<<>>, FALSE, CallExpression(Method(Identifier("a"), "b"), <<>>))
\* emitter.on(() => a.b())
NestedReceiver == CallExpression(Method(Identifier("emitter"), "on"), <<Inner>>)

ArgNames == <<"arg1", "arg2", "arg3", "arg4">>
PlainArgs(k) == [i \in 1..k |-> Identifier(ArgNames[i])]
PlainArgLists == {PlainArgs(k) : k \in 0..MaxArgs}
NestedArgLists == UNION {{[PlainArgs(k) EXCEPT ![j] = Inner] : j \in 1..k} : k \in 1..MaxArgs}
ShortArgLists == {PlainArgs(0), PlainArgs(1)}

\* obj.method(...), this.controller.method(...)
MethodCalls == {CallExpression(Method(r, "method"), a) : r \in {Obj, ThisController}, a \in PlainArgLists}
\* this.#secret(...), obj[method](...), doSomething(...)
OtherCalls ==
    {CallExpression(MemberExpression(ThisExpression, PrivateIdentifier("#secret"), FALSE), a) : a \in ShortArgLists}
    \cup {CallExpression(MemberExpression(Obj, Identifier("method"), TRUE), a) : a \in ShortArgLists}
    \cup {CallExpression(Identifier("doSomething"), a) : a \in ShortArgLists}
\* Calls with a closure in the receiver or among the arguments.
NestedCalls ==
    {CallExpression(Method(NestedReceiver, "start"), a) : a \in PlainArgLists}
    \cup {CallExpression(Method(Obj, m), a) : m \in {"method", "on"}, a \in NestedArgLists}

Block1(e) == BlockStatement(<<ExpressionStatement(e)>>)
Cleanup == CallExpression(Identifier("cleanup"), <<>>)
ObjProp == Method(Obj, "prop")

\* The closures whose shape the handlers accept, around the call c.
SyncShapes(c) ==
    {ArrowFunctionExpression(<<>>, FALSE, c),
     ArrowFunctionExpression(<<>>, FALSE, Block1(c)),
     FunctionExpression(Null, <<>>, FALSE, FALSE, Block1(c))}
AsyncShapes(c) ==
    {ArrowFunctionExpression(<<>>, TRUE, b) :
        b \in {c, AwaitExpression(c), Block1(c), Block1(AwaitExpression(c))}}
    \cup {FunctionExpression(Null, <<>>, TRUE, FALSE, b) :
        b \in {Block1(c), Block1(AwaitExpression(c))}}
NamedShapes(c) == {FunctionExpression(Identifier("tick"), <<>>, FALSE, FALSE, Block1(c))}
\* The closures around c that differ from an accepted shape in one respect.
OtherShapes(c) ==
    {ArrowFunctionExpression(<<"x">>, FALSE, c),
     FunctionExpression(Null, <<"x">>, FALSE, FALSE, Block1(c)),
     FunctionExpression(Null, <<>>, FALSE, TRUE, Block1(c)),
     ArrowFunctionExpression(<<>>, FALSE, BlockStatement(<<ExpressionStatement(c), ExpressionStatement(Cleanup)>>)),
     FunctionExpression(Null, <<>>, FALSE, FALSE, BlockStatement(<<ExpressionStatement(c), ExpressionStatement(Cleanup)>>)),
     ArrowFunctionExpression(<<>>, FALSE, BlockStatement(<<ReturnStatement(c)>>)),
     FunctionExpression(Null, <<>>, FALSE, FALSE, BlockStatement(<<ReturnStatement(c)>>))}
\* The closures that hold no call at all.
CallFreeShapes ==
    {ArrowFunctionExpression(<<>>, FALSE, BlockStatement(<<>>)),
     FunctionExpression(Null, <<>>, FALSE, FALSE, BlockStatement(<<>>)),
     ArrowFunctionExpression(<<>>, FALSE, ObjProp),
     FunctionExpression(Null, <<>>, FALSE, FALSE, Block1(ObjProp)),
     ArrowFunctionExpression(<<>>, TRUE, AwaitExpression(ObjProp)),
     ArrowFunctionExpression(<<>>, FALSE, Inner),
     FunctionExpression(Null, <<>>, FALSE, FALSE, Block1(Inner))}

ContextNames == {"setTimeout", "setInterval", "addEventListener", "map", "myCustomHandler"}
Target == Identifier("target")
\* n(...), target.n(...), target[n](...)
Callees(n) == {Identifier(n), Method(Target, n), MemberExpression(Target, Identifier(n), TRUE)}
\* getHandler()(...): a callee that is neither an identifier nor a member access;
\* target['setTimeout'](...): a member access whose property is no identifier
AllCallees ==
    UNION {Callees(n) : n \in ContextNames}
    \cup {CallExpression(Identifier("getHandler"), <<>>),
          MemberExpression(Target, Literal("'setTimeout'"), TRUE)}

Delay == Literal("1000")
Extra == Identifier("extra")
Abort == Literal("'abort'")
ArgLayouts(k) == {<<k>>, <<k, Delay>>, <<k, Delay, Extra>>, <<Abort, k>>}

CallWith(callee, args) == ExpressionStatement(CallExpression(callee, args))
Standalone(k) == IF k.type = "ArrowFunctionExpression" THEN {ExpressionStatement(k)} ELSE {}

AllPlacements(k) ==
    Standalone(k) \cup {VariableDeclarator("fn", k)}
    \cup {CallWith(c, a) : c \in AllCallees, a \in ArgLayouts(k)}
SomePlacements(k) ==
    Standalone(k) \cup {VariableDeclarator("fn", k)}
    \cup {CallWith(Identifier("setTimeout"), <<k>>),
          CallWith(Identifier("setTimeout"), <<k, Delay>>),
          CallWith(Method(Identifier("signal"), "addEventListener"), <<Abort, k>>),
          CallWith(Method(Identifier("arr"), "map"), <<k>>)}

\* Every placement of the plain closures; every shape in some placements;
\* the nested closures in some placements.
ContextPrograms ==
    UNION {AllPlacements(k) : k \in UNION {SyncShapes(c) : c \in MethodCalls}}
ShapePrograms ==
    UNION {SomePlacements(k) :
             k \in UNION {SyncShapes(c) \cup AsyncShapes(c) \cup NamedShapes(c) :
                            c \in MethodCalls \cup OtherCalls}
                   \cup UNION {OtherShapes(c) :
                                 c \in {CallExpression(Method(Obj, "method"), a) : a \in ShortArgLists}}
                   \cup CallFreeShapes}
NestedPrograms ==
    UNION {SomePlacements(k) : k \in UNION {SyncShapes(c) : c \in NestedCalls}}
\* Two closures side by side among the arguments of one call.
SiblingPrograms ==
    UNION {{CallWith(c, <<k, Inner>>), CallWith(c, <<Inner, k>>)} :
             c \in {Identifier("setTimeout"), Method(Identifier("emitter"), "on")},
             k \in UNION {SyncShapes(CallExpression(Method(Obj, "method"), a)) :
                            a \in PlainArgLists}}
\* const fn = { m() { obj.method(); } }, { get m() { return obj.method(); } },
\* { set m(v) { obj.method(); } }
MethodPrograms ==
    {VariableDeclarator("fn",
        ObjectExpression(<<Property(kind, "m",
                                    MethodValue(IF kind = "set" THEN <<"v">> ELSE <<>>, b))>>)) :
       kind \in {"init", "get", "set"},
       b \in UNION {{Block1(c), BlockStatement(<<ReturnStatement(c)>>)} :
                      c \in {CallExpression(Method(Obj, "method"), a) : a \in ShortArgLists}}}
\* The remaining default names: on(K), emitter.once(K), target[subscribe](K).
DefaultNamePrograms ==
    {CallWith(c, <<k>>) :
       c \in UNION {Callees(n) : n \in {"on", "once", "subscribe"}},
       k \in SyncShapes(CallExpression(Method(Obj, "method"), <<>>))}
Programs ==
    ContextPrograms \cup ShapePrograms \cup NestedPrograms \cup SiblingPrograms
    \cup MethodPrograms \cup DefaultNamePrograms

Options ==
    [onlyInLongLivedContexts : {Absent, Given(TRUE), Given(FALSE)},
     longLivedContexts : {Absent, Given(<<"myCustomHandler">>), Given(<<>>)},
     includeAsync : {Absent, Given(TRUE), Given(FALSE)}]

(***************************************************************************)
(* The options as the configuration file states them: a JSON object, each  *)
(* value carrying its JSON type, and the rule's schema for them.           *)
(***************************************************************************)
JBoolean(b) == [boolean |-> b]
JString(str) == [string |-> str]
JNumber(n) == [number |-> n]
JArray(items) == [array |-> items]
JsonType(value) == CHOOSE t \in {"boolean", "string", "number", "array"} : t \in DOMAIN value

OptionNames == {"onlyInLongLivedContexts", "longLivedContexts", "includeAsync"}

\* Mutant: properties the schema does not name are let through.
schema_Open ==
    [type |-> "object",
     properties |->
        [onlyInLongLivedContexts |-> [type |-> "boolean"],
         longLivedContexts |-> [type |-> "array", items |-> [type |-> "string"]],
         includeAsync |-> [type |-> "boolean"]],
     additionalProperties |-> TRUE]

\* meta.schema[0]
schema ==
    [type |-> "object",
     properties |->
        [onlyInLongLivedContexts |-> [type |-> "boolean"],
         longLivedContexts |-> [type |-> "array", items |-> [type |-> "string"]],
         includeAsync |-> [type |-> "boolean"]],
     additionalProperties |-> FALSE]

\* The host's validation of a value against a schema.
ValidValue(value, s) ==
    /\ JsonType(value) = s.type
    /\ s.type = "array" =>
          \A j \in 1..Len(value.array) : JsonType(value.array[j]) = s.items.type

ValidObject(object, s) ==
    \A key \in DOMAIN object :
        IF key \in DOMAIN s.properties
        THEN ValidValue(object[key], s.properties[key])
        ELSE s.additionalProperties

\* A JSON value as the rule's code sees it.
RECURSIVE Untyped(_)
Untyped(value) ==
    IF JsonType(value) = "array"
    THEN [j \in 1..Len(value.array) |-> Untyped(value.array[j])]
    ELSE value[JsonType(value)]

\* The JSON object that states the options o, and the options a JSON object
\* states: context.options[0] as the rule reads it.
WriteOptions(o) ==
    [key \in {k \in OptionNames : o[k] # Absent} |->
        IF key = "longLivedContexts"
        THEN JArray([j \in 1..Len(o[key][1]) |-> JString(o[key][1][j])])
        ELSE JBoolean(o[key][1])]

ReadOptions(object) ==
    [key \in OptionNames |->
        IF key \in DOMAIN object THEN Given(Untyped(object[key])) ELSE Absent]

\* Configurations the schema does not allow: a list that is not an array, a
\* list of something other than strings, a flag that is not a boolean, an
\* option the rule does not have.
MalformedOptions ==
    {[key \in {"longLivedContexts"} |-> JString("setTimeout")],
     [key \in {"longLivedContexts"} |-> JArray(<<JString("setTimeout"), JNumber(1)>>)],
     [key \in {"onlyInLongLivedContexts"} |-> JString("yes")],
     [key \in {"includeAsync"} |-> JNumber(1)],
     [key \in {"unknownOption"} |-> JBoolean(TRUE)],
     [key \in {"onlyInLongLivedContexts", "contexts"} |->
        IF key = "contexts" THEN JArray(<<JString("setTimeout")>>) ELSE JBoolean(TRUE)]}

UserOptions == {WriteOptions(o) : o \in Options} \cup MalformedOptions

(***************************************************************************)
(* The run                                                                 *)
(***************************************************************************)
VARIABLES
    userOptions, \* the rule's options in the configuration, as JSON
    options,    \* context.options[0], Null before the host accepts them
    config,     \* what create() resolved, Null before
    text,       \* the source text being linted
    tree,       \* its syntax tree
    phase,      \* "start" before create(), "traverse" after
    todo,       \* the function nodes the traversal has yet to visit
    visited,    \* the visits of this run: the node and what its handler reported
    before      \* Null, or the first run whose suggestion was applied

vars == <<userOptions, options, config, text, tree, phase, todo, visited, before>>

Init ==
    /\ tree \in Programs
    /\ userOptions \in UserOptions
    /\ options = Null
    /\ text = getText(tree)
    /\ config = Null
    /\ phase = "config"
    /\ todo = <<>>
    /\ visited = <<>>
    /\ before = Null

\* The host resolves the configuration: options the schema allows are
\* handed to the rule.
AcceptConfig ==
    /\ phase = "config"
    /\ ValidObject(userOptions, schema)
    /\ options' = ReadOptions(userOptions)
    /\ phase' = "start"
    /\ UNCHANGED <<userOptions, config, text, tree, todo, visited, before>>

\* Options the schema does not allow end the run with a configuration error.
RejectConfig ==
    /\ phase = "config"
    /\ ~ValidObject(userOptions, schema)
    /\ phase' = "configError"
    /\ UNCHANGED <<userOptions, options, config, text, tree, todo, visited, before>>

\* The host calls create(context) and starts the traversal.
Create ==
    /\ phase = "start"
    /\ config' = create(options)
    /\ todo' = FunctionPaths(tree, <<>>)
    /\ phase' = "traverse"
    /\ UNCHANGED <<userOptions, options, text, tree, visited, before>>

\* The host visits the next function node: an arrow function goes to
\* checkArrowFunction.
VisitArrowFunctionExpression ==
    /\ phase = "traverse"
    /\ todo # <<>>
    /\ NodeAt(tree, Head(todo)).type = "ArrowFunctionExpression"
    /\ visited' = Append(visited,
                         [node |-> Head(todo),
                          findings |-> checkArrowFunction(config, tree, Head(todo)),
                          calls |-> checkArrowFunctionCalls(config, tree, Head(todo))])
    /\ todo' = Tail(todo)
    /\ UNCHANGED <<userOptions, options, config, text, tree, phase, before>>

\* A function expression goes to checkFunctionExpression.
VisitFunctionExpression ==
    /\ phase = "traverse"
    /\ todo # <<>>
    /\ NodeAt(tree, Head(todo)).type = "FunctionExpression"
    /\ visited' = Append(visited,
                         [node |-> Head(todo),
                          findings |-> checkFunctionExpression(config, tree, Head(todo)),
                          calls |-> checkFunctionExpressionCalls(config, tree, Head(todo))])
    /\ todo' = Tail(todo)
    /\ UNCHANGED <<userOptions, options, config, text, tree, phase, before>>

Done == phase = "traverse" /\ todo = <<>>

\* After the first run one suggestion is applied and the result linted again.
ApplySuggestion ==
    /\ Done
    /\ before = Null
    /\ \E i \in 1..Len(visited) :
          /\ visited[i].findings # <<>>
          /\ LET fix == visited[i].findings[1].suggest[1].fix
                 fixed == replaceText(text, RangeOf(tree, fix.target), fix.text)
             IN /\ text' = fixed
                /\ tree' = Parse(fixed)
                /\ before' = [text |-> text, tree |-> tree, visited |-> visited,
                               applied |-> i]
    /\ config' = Null
    /\ phase' = "start"
    /\ visited' = <<>>
    /\ UNCHANGED <<userOptions, options, todo>>

Next ==
    \/ AcceptConfig
    \/ RejectConfig
    \/ Create
    \/ VisitArrowFunctionExpression
    \/ VisitFunctionExpression
    \/ ApplySuggestion

Spec == Init /\ [][Next]_vars

\* The tree is the parse of the text and the text the rendering of the tree.
TextMatchesTree ==
    /\ tree = Parse(text)
    /\ tree # SyntaxError => text = getText(tree)

(***************************************************************************)
(* Vocabulary of the properties, from the rule's documentation: what a     *)
(* forwarding closure is, where it stands, and the text of a node.         *)
(***************************************************************************)
IsCall(node) == node.type = "CallExpression"
IsAwaitedCall(node) == node.type = "AwaitExpression" /\ IsCall(node.argument)

\* The path, inside the closure k, of the call its body consists of:
\* the body itself, an awaited call, or the only statement of a block
\* holding one of the two.  <<>> when the body is anything else.
ForwardedPath(k) ==
    LET b == k.body
    IN IF IsCall(b) THEN <<Sel("body", 0)>>
       ELSE IF IsAwaitedCall(b) THEN <<Sel("body", 0), Sel("argument", 0)>>
       ELSE IF b.type = "BlockStatement" /\ Len(b.body) = 1
               /\ b.body[1].type = "ExpressionStatement"
       THEN LET e == b.body[1].expression
                stmt == <<Sel("body", 0), Sel("body", 1), Sel("expression", 0)>>
            IN IF IsCall(e) THEN stmt
               ELSE IF IsAwaitedCall(e) THEN Append(stmt, Sel("argument", 0))
               ELSE <<>>
       ELSE <<>>

HasForwardedCall(k) == ForwardedPath(k) # <<>>
ForwardedCall(k) == NodeAt(k, ForwardedPath(k))

\* k is a parameterless, non-generator function whose body is one call
\* object.identifier(...) of a method named by a plain identifier.
Forwards(k) ==
    /\ Len(k.params) = 0
    /\ ~k.generator
    /\ HasForwardedCall(k)
    /\ LET callee == ForwardedCall(k).callee
       IN /\ callee.type = "MemberExpression"
          /\ ~callee.computed
          /\ callee.property.type = "Identifier"

ForwardsNoArgs(k) == Forwards(k) /\ ForwardedCall(k).arguments = <<>>
ForwardsArgs(k) == Forwards(k) /\ ForwardedCall(k).arguments # <<>>

\* The name a callee is read as, lexically: a bare identifier, or the last
\* segment of a member access.  {} when there is none.
LexicalName(callee) ==
    IF callee.type = "Identifier" THEN {callee.name}
    ELSE IF callee.type = "MemberExpression" /\ callee.property.type = "Identifier"
    THEN {callee.property.name}
    ELSE {}

Range(seq) == {seq[i] : i \in 1..Len(seq)}

\* The node at p is an argument of a call whose name is one of names.
ArgumentOfCallNamed(root, p, names) ==
    LET parent == NodeAt(root, Front(p))
    IN /\ IsCall(parent)
       /\ Last(p).f = "arguments"
       /\ LexicalName(parent.callee) \cap names # {}

\* The node at p is the first argument of setTimeout or setInterval.
InTimerContext(root, p) ==
    /\ ArgumentOfCallNamed(root, p, {"setTimeout", "setInterval"})
    /\ Last(p).i = 1

\* The verbatim source text of the node at p.
TextAt(src, root, p) ==
    LET r == RangeOf(root, p) IN SubSeq(src, r[1], r[2])

NoOptions == [onlyInLongLivedContexts |-> Absent, longLivedContexts |-> Absent,
              includeAsync |-> Absent]

Visits == 1..Len(visited)
Closure(i) == NodeAt(tree, visited[i].node)

(***************************************************************************)
(* C1: with no options supplied, a parameterless closure whose body is a   *)
(* call without arguments to a non-computed method, and which is not an    *)
(* argument of a call with a recognized retaining name, gives no finding.  *)
(***************************************************************************)
C1_DefaultSkipsShortLived ==
    \A i \in Visits :
        ( /\ options = NoOptions
          /\ ForwardsNoArgs(Closure(i))
          /\ ~ArgumentOfCallNamed(tree, visited[i].node, Range(DefaultLongLivedContexts)) )
        => visited[i].findings = <<>>

(***************************************************************************)
(* C2: a parameterless, non-async closure forwarding a call without        *)
(* arguments, passed as an argument to a call whose name is in             *)
(* longLivedContexts, gives exactly one finding, whether                   *)
(* onlyInLongLivedContexts is true or false.                               *)
(***************************************************************************)
C2_Case(i) ==
    /\ ForwardsNoArgs(Closure(i))
    /\ ~Closure(i).async
    /\ ArgumentOfCallNamed(tree, visited[i].node, Range(config.longLivedContexts))

C2_OneFindingInLongLivedContext ==
    \A i \in Visits : C2_Case(i) => Len(visited[i].findings) = 1

C2_Witness ==
    \E i \in Visits :
        /\ C2_Case(i)
        /\ config.onlyInLongLivedContexts
        /\ ~InTimerContext(tree, visited[i].node)
        /\ Len(visited[i].findings) = 1

(***************************************************************************)
(* C3: when onlyInLongLivedContexts is false, a closure forwarding a call  *)
(* without arguments gives one finding wherever it stands (alone, as a     *)
(* variable initializer, as an argument of any call), and the replacement  *)
(* is <object>.<method>.bind(<object>).  (An async closure is one the rule *)
(* looks at only under includeAsync.)                                      *)
(***************************************************************************)
ReceiverPath(p, k) == p \o ForwardedPath(k) \o <<Sel("callee", 0), Sel("object", 0)>>

\* <object>.<method>.bind(<object>) for the closure at p, from the source text.
BindTextOf(src, root, p) ==
    LET k == NodeAt(root, p)
        objectText == TextAt(src, root, ReceiverPath(p, k))
    IN objectText \o <<".", ForwardedCall(k).callee.property.name, ".", "bind", "(">>
       \o objectText \o <<")">>

C3_Case(i) ==
    /\ ~config.onlyInLongLivedContexts
    /\ ForwardsNoArgs(Closure(i))
    /\ Closure(i).async => config.includeAsync

C3_ReportedEverywhere ==
    \A i \in Visits :
        C3_Case(i) =>
            /\ Len(visited[i].findings) = 1
            /\ visited[i].findings[1].data.replacement = BindTextOf(text, tree, visited[i].node)

C3_Witness ==
    \E i \in Visits :
        /\ C3_Case(i)
        /\ NodeAt(tree, Front(visited[i].node)).type = "VariableDeclarator"
        /\ Closure(i).type = "FunctionExpression"
        /\ Len(visited[i].findings) = 1

(***************************************************************************)
(* C4: a forwarding call with one or more arguments is reported only when  *)
(* the closure is in a timer context (first argument of setTimeout or      *)
(* setInterval, the name read lexically off the callee).  Outside a timer  *)
(* context it gives no finding under any configuration, also as an         *)
(* argument of a call named in longLivedContexts and with                  *)
(* onlyInLongLivedContexts false.                                          *)
(***************************************************************************)
C4_Case(i) ==
    /\ HasForwardedCall(Closure(i))
    /\ ForwardedCall(Closure(i)).arguments # <<>>
    /\ ~InTimerContext(tree, visited[i].node)

C4_ArgumentsOnlyInTimerContext ==
    \A i \in Visits : C4_Case(i) => visited[i].findings = <<>>

C4_Witness ==
    \E i \in Visits :
        /\ C4_Case(i)
        /\ ForwardsArgs(Closure(i))
        /\ ~config.onlyInLongLivedContexts
        /\ ArgumentOfCallNamed(tree, visited[i].node, {"addEventListener"})
        /\ "addEventListener" \in Range(config.longLivedContexts)
        /\ visited[i].findings = <<>>

(***************************************************************************)
(* C5: for a closure in a timer context forwarding arguments a0..an, the   *)
(* replacement is <scheduler>(<object>.<method>.bind(<object>), <delay>,   *)
(* a0, ..., an): the arguments verbatim and in order after the delay, the  *)
(* delay being the scheduler call's second argument verbatim, or 0 when    *)
(* there is none.                                                          *)
(***************************************************************************)
SchedulerPath(p) == Front(p)
SchedulerCall(p) == NodeAt(tree, SchedulerPath(p))
SchedulerName(p) == CHOOSE n \in LexicalName(SchedulerCall(p).callee) : TRUE

DelayTextOf(p) ==
    IF Len(SchedulerCall(p).arguments) >= 2
    THEN TextAt(text, tree, Append(SchedulerPath(p), Sel("arguments", 2)))
    ELSE <<"0">>

ForwardedArgTexts(p) ==
    LET k == NodeAt(tree, p)
    IN [j \in 1..Len(ForwardedCall(k).arguments) |->
          TextAt(text, tree, p \o ForwardedPath(k) \o <<Sel("arguments", j)>>)]

TimerTextOf(p) ==
    <<SchedulerName(p), "(">> \o BindTextOf(text, tree, p) \o <<",">> \o DelayTextOf(p)
    \o <<",">> \o Join(ForwardedArgTexts(p), <<",">>) \o <<")">>

\* The closure of visit i forwards arguments from a timer context, and is
\* one the rule looks at.
TimerForm(i) ==
    /\ ForwardsArgs(Closure(i))
    /\ InTimerContext(tree, visited[i].node)
    /\ Closure(i).async => config.includeAsync

C5_TimerReplacementText ==
    \A i \in Visits :
        TimerForm(i) =>
            /\ Len(visited[i].findings) = 1
            /\ visited[i].findings[1].data.replacement = TimerTextOf(visited[i].node)
            /\ visited[i].findings[1].suggest[1].fix.text = TimerTextOf(visited[i].node)

C5_Witness ==
    \E i \in Visits :
        /\ TimerForm(i)
        /\ Len(ForwardedCall(Closure(i)).arguments) >= 2
        /\ Len(SchedulerCall(visited[i].node).arguments) = 1
        /\ visited[i].findings # <<>>

(***************************************************************************)
(* C6: in the timer form with arguments the replacement names the          *)
(* scheduler by its bare name whatever the call was qualified with:        *)
(* target.setTimeout(cb, d) and setTimeout(cb, d) give the same            *)
(* replacement.                                                            *)
(***************************************************************************)
Handler(root, p) ==
    IF NodeAt(root, p).type = "ArrowFunctionExpression"
    THEN checkArrowFunction(config, root, p)
    ELSE checkFunctionExpression(config, root, p)

\* The tree with the scheduler call of the closure at p written unqualified.
Unqualified(p) ==
    ReplaceAt(tree, Append(SchedulerPath(p), Sel("callee", 0)), Identifier(SchedulerName(p)))

C6_BareSchedulerName ==
    \A i \in Visits :
        (TimerForm(i) /\ visited[i].findings # <<>>) =>
            LET p == visited[i].node
                replacement == visited[i].findings[1].data.replacement
            IN /\ replacement[1] \in {"setTimeout", "setInterval"}
               /\ replacement[1] = SchedulerName(p)
               /\ replacement[2] = "("
               /\ Handler(Unqualified(p), p) = visited[i].findings

C6_Witness ==
    \E i \in Visits :
        /\ TimerForm(i)
        /\ visited[i].findings # <<>>
        /\ SchedulerCall(visited[i].node).callee.type = "MemberExpression"
        /\ ~SchedulerCall(visited[i].node).callee.computed
        /\ visited[i].findings[1].data.replacement[1] = "setTimeout"

(***************************************************************************)
(* C7: in the timer form with arguments the reported node and the span the *)
(* suggestion replaces are the whole enclosing scheduler call, never the   *)
(* closure alone.                                                          *)
(***************************************************************************)
Applied == before.visited[before.applied]
AppliedFinding == Applied.findings[1]
AppliedClosure == NodeAt(before.tree, Applied.node)
AfterFix == ~IsNull(before)

C7_TimerFormReplacesCall ==
    /\ \A i \in Visits :
          (TimerForm(i) /\ visited[i].findings # <<>>) =>
              LET f == visited[i].findings[1]
              IN /\ f.node = SchedulerPath(visited[i].node)
                 /\ f.suggest[1].fix.target = SchedulerPath(visited[i].node)
                 /\ IsCall(NodeAt(tree, f.node))
                 /\ NodeAt(tree, f.node).arguments[1] = Closure(i)
    /\ (AfterFix /\ ForwardsArgs(AppliedClosure)) =>
          \* the scheduler call is the whole statement here
          text = AppliedFinding.data.replacement \o <<";">>

C7_Witness ==
    /\ AfterFix
    /\ ForwardsArgs(AppliedClosure)
    /\ Len(before.text) > Len(text)

(***************************************************************************)
(* C8: when the forwarded call has no arguments, in a timer context or     *)
(* not, the suggestion replaces exactly the closure node; every other      *)
(* token of the enclosing call (callee, other arguments, their order) is   *)
(* the same before and after the fix.                                      *)
(***************************************************************************)
C8_BaseFormReplacesClosureOnly ==
    /\ \A i \in Visits :
          (visited[i].findings # <<>> /\ ForwardsNoArgs(Closure(i))) =>
              /\ visited[i].findings[1].node = visited[i].node
              /\ visited[i].findings[1].suggest[1].fix.target = visited[i].node
    /\ (AfterFix /\ ForwardsNoArgs(AppliedClosure)) =>
          LET p == Applied.node
              r == RangeOf(before.tree, p)
              n == Len(BindTextOf(before.text, before.tree, p))
          IN /\ SubSeq(text, 1, r[1] - 1) = SubSeq(before.text, 1, r[1] - 1)
             /\ SubSeq(text, r[1], r[1] + n - 1) = BindTextOf(before.text, before.tree, p)
             /\ SubSeq(text, r[1] + n, Len(text))
                   = SubSeq(before.text, r[2] + 1, Len(before.text))
             /\ tree # SyntaxError =>
                   ReplaceAt(tree, p, Marker) = ReplaceAt(before.tree, p, Marker)

C8_Witness ==
    /\ AfterFix
    /\ ForwardsNoArgs(AppliedClosure)
    /\ InTimerContext(before.tree, Applied.node)
    /\ Len(NodeAt(tree, Front(Applied.node)).arguments) = 3

(***************************************************************************)
(* C9: the base-form replacement is <object> "." <method> ".bind("         *)
(* <object> ")", <object> being the verbatim source text of the receiver   *)
(* (possibly a chain such as this.controller), emitted twice unchanged.    *)
(***************************************************************************)
BaseForm(i) ==
    /\ visited[i].findings # <<>>
    /\ HasForwardedCall(Closure(i))
    /\ ForwardedCall(Closure(i)).arguments = <<>>

C9_BindTextVerbatim ==
    \A i \in Visits :
        BaseForm(i) =>
            LET f == visited[i].findings[1]
                objectText == TextAt(text, tree, ReceiverPath(visited[i].node, Closure(i)))
                expected == objectText
                            \o <<".", ForwardedCall(Closure(i)).callee.property.name>>
                            \o <<".", "bind", "(">> \o objectText \o <<")">>
            IN /\ f.data.replacement = expected
               /\ f.suggest[1].fix.text = expected

C9_Witness ==
    \E i \in Visits :
        /\ BaseForm(i)
        /\ config.onlyInLongLivedContexts
        /\ TextAt(text, tree, ReceiverPath(visited[i].node, Closure(i)))
             = <<"this", ".", "controller">>

(***************************************************************************)
(* C10: idempotence.  After a finding's suggestion is applied and the      *)
(* result linted again, there is no finding that was not present before    *)
(* the fix: nothing the fix emits is itself flagged.                       *)
(***************************************************************************)
ReportedBefore(j) == before.visited[j].findings # <<>>

\* As the claim states it.  A finding counts as present before when a
\* closure at the same place, or with the same text, was reported before.
C10_Idempotent ==
    AfterFix =>
        \A i \in Visits :
            visited[i].findings # <<>> =>
                \E j \in 1..Len(before.visited) :
                    /\ ReportedBefore(j)
                    /\ \/ before.visited[j].node = visited[i].node
                       \/ TextAt(before.text, before.tree, before.visited[j].node)
                            = TextAt(text, tree, visited[i].node)

\* The expression a function's body consists of: the body, what it awaits,
\* or the same of the only statement of a block.
SolePaths(k) ==
    LET b == k.body
        body == <<Sel("body", 0)>>
        stmt == <<Sel("body", 0), Sel("body", 1), Sel("expression", 0)>>
    IN IF b.type = "BlockStatement"
       THEN IF Len(b.body) = 1 /\ b.body[1].type = "ExpressionStatement"
            THEN {stmt} \cup (IF b.body[1].expression.type = "AwaitExpression"
                              THEN {Append(stmt, Sel("argument", 0))} ELSE {})
            ELSE {}
       ELSE {body} \cup (IF b.type = "AwaitExpression"
                         THEN {Append(body, Sel("argument", 0))} ELSE {})

\* The node at p is the expression an enclosing function's body consists of.
Wrapped(root, p) ==
    \E q \in Range(FunctionPaths(root, <<>>)) :
        \E sp \in SolePaths(NodeAt(root, q)) : q \o sp = p

\* What the applied suggestion replaced: the closure, or the scheduler call.
AppliedSpan == AppliedFinding.suggest[1].fix.target

\* The replaced span holds no function other than the fixed closure.
Flat ==
    \A q \in Range(FunctionPaths(NodeAt(before.tree, AppliedSpan), AppliedSpan)) :
        q = Applied.node

FlatFix == Flat /\ ~Wrapped(before.tree, Applied.node)

\* As amended: when the replaced span holds no function other than the
\* fixed closure, and that closure is not the expression an enclosing
\* function's body consists of, every closure reported after the fix was
\* reported, at the same place, before it, and is not the one that was fixed.
C10_IdempotentWhenFlat ==
    (AfterFix /\ FlatFix) =>
        \A i \in Visits :
            visited[i].findings # <<>> =>
                \E j \in 1..Len(before.visited) :
                    /\ j # before.applied
                    /\ ReportedBefore(j)
                    /\ before.visited[j].node = visited[i].node

C10_Witness ==
    /\ AfterFix
    /\ FlatFix
    /\ Done
    /\ Len(before.visited) = 2
    /\ \E i \in Visits : visited[i].findings # <<>>

(***************************************************************************)
(* C11: an async closure, arrow or function expression, is never reported  *)
(* when includeAsync is false or omitted, whatever its body and placement  *)
(* (the first argument of setTimeout included); a finding for an async     *)
(* closure exists only under includeAsync true.                            *)
(***************************************************************************)
C11_AsyncNeedsIncludeAsync ==
    \A i \in Visits :
        (Closure(i).async /\ options.includeAsync # Given(TRUE))
            => visited[i].findings = <<>>

C11_Witness ==
    \E i \in Visits :
        /\ Closure(i).async
        /\ options.includeAsync = Given(FALSE)
        /\ options.onlyInLongLivedContexts = Given(FALSE)
        /\ ForwardsNoArgs(Closure(i))
        /\ InTimerContext(tree, visited[i].node)
        /\ visited[i].findings = <<>>

(***************************************************************************)
(* C12: with includeAsync true, the four body forms of one forwarding      *)
(* call (the call, the awaited call, a block holding only the call, a      *)
(* block holding only the awaited call) each give one finding with the     *)
(* same replacement text; the await is stripped and is not in the text.    *)
(***************************************************************************)
\* The closure k with its body reduced to the call it forwards: the call
\* itself for an arrow function, a block holding only the call otherwise.
DirectForm(k) ==
    IF k.type = "ArrowFunctionExpression"
    THEN [k EXCEPT !.body = ForwardedCall(k)]
    ELSE [k EXCEPT !.body = Block1(ForwardedCall(k))]

\* The closure of visit i is async and looked at, and the forwarded call
\* and the placement are ones the rule reports.
C12_Case(i) ==
    /\ options.includeAsync = Given(TRUE)
    /\ Closure(i).async
    /\ Forwards(Closure(i))
    /\ ForwardsNoArgs(Closure(i)) \/ InTimerContext(tree, visited[i].node)
    /\ config.onlyInLongLivedContexts =>
          \/ ArgumentOfCallNamed(tree, visited[i].node, Range(config.longLivedContexts))
          \/ InTimerContext(tree, visited[i].node)

C12_BodyFormsAgree ==
    \A i \in Visits :
        C12_Case(i) =>
            LET p == visited[i].node
                direct == Handler(ReplaceAt(tree, p, DirectForm(Closure(i))), p)
            IN /\ Len(visited[i].findings) = 1
               /\ Len(direct) = 1
               /\ visited[i].findings[1].data.replacement = direct[1].data.replacement
               /\ visited[i].findings[1].suggest[1].fix.text = direct[1].suggest[1].fix.text
               /\ "await" \notin Range(visited[i].findings[1].data.replacement)

C12_Witness ==
    \E i \in Visits :
        /\ C12_Case(i)
        /\ Closure(i).type = "FunctionExpression"
        /\ Len(ForwardedPath(Closure(i))) = 4
        /\ ForwardsArgs(Closure(i))
        /\ visited[i].findings # <<>>

(***************************************************************************)
(* C13: a closure is matched only if it has no parameters, is not a        *)
(* generator, and its body is a call, an awaited call, or a block whose    *)
(* only statement is an expression statement holding one of the two.       *)
(* Every other closure (empty block, two statements, a return statement,   *)
(* a non-call expression, a parameter, a generator) gives no finding,      *)
(* whatever the options and the placement.                                 *)
(***************************************************************************)
ShapeMatches(k) ==
    /\ Len(k.params) = 0
    /\ ~k.generator
    /\ HasForwardedCall(k)

C13_OtherShapesNeverReported ==
    \A i \in Visits : ~ShapeMatches(Closure(i)) => visited[i].findings = <<>>

C13_Witness ==
    \E i \in Visits :
        /\ ~ShapeMatches(Closure(i))
        /\ Closure(i).body.type = "BlockStatement"
        /\ Len(Closure(i).body.body) = 2
        /\ InTimerContext(tree, visited[i].node)
        /\ ~config.onlyInLongLivedContexts
        /\ visited[i].findings = <<>>

(***************************************************************************)
(* C14: the forwarded call must target a non-computed property access      *)
(* whose property is an identifier: a closure around a plain function      *)
(* call doSomething() or a computed access obj[method]() gives no          *)
(* finding under any options, a timer context included.                    *)
(***************************************************************************)
TargetsNamedMethod(call) ==
    /\ call.callee.type = "MemberExpression"
    /\ ~call.callee.computed
    /\ call.callee.property.type = "Identifier"

C14_OtherCalleesNeverReported ==
    \A i \in Visits :
        (HasForwardedCall(Closure(i)) /\ ~TargetsNamedMethod(ForwardedCall(Closure(i))))
            => visited[i].findings = <<>>

C14_Witness ==
    \E i \in Visits :
        /\ HasForwardedCall(Closure(i))
        /\ ForwardedCall(Closure(i)).callee.type = "MemberExpression"
        /\ ForwardedCall(Closure(i)).callee.computed
        /\ InTimerContext(tree, visited[i].node)
        /\ ~config.onlyInLongLivedContexts
        /\ visited[i].findings = <<>>

(***************************************************************************)
(* C15: every finding carries exactly one suggestion, whose fix replaces   *)
(* the reported node by the replacement text, and no finding carries a     *)
(* fix of its own: the source changes only when a suggestion is applied.   *)
(***************************************************************************)
C15_OneSuggestionNoAutoFix ==
    /\ \A i \in Visits :
          \A n \in 1..Len(visited[i].findings) :
              LET f == visited[i].findings[n]
              IN /\ "fix" \notin DOMAIN f
                 /\ Len(f.suggest) = 1
                 /\ f.suggest[1].fix.target = f.node
                 /\ f.suggest[1].fix.text = f.data.replacement
    /\ AfterFix =>
          text = replaceText(before.text, RangeOf(before.tree, AppliedFinding.node),
                             AppliedFinding.data.replacement)

C15_Witness ==
    /\ AfterFix
    /\ ForwardsArgs(AppliedClosure)
    /\ \E i \in Visits : visited[i].findings # <<>>

(***************************************************************************)
(* C16: with onlyInLongLivedContexts true, a closure the rule would        *)
(* otherwise report is reported if and only if it is an argument of a      *)
(* call whose callee name is in longLivedContexts, or it is the first      *)
(* argument of a call named setTimeout or setInterval; the latter also     *)
(* when longLivedContexts does not hold the scheduler's name.              *)
(***************************************************************************)
\* The closure of visit i passes every test before the context policy.
Matched(i) ==
    /\ Forwards(Closure(i))
    /\ Closure(i).async => config.includeAsync
    /\ ForwardsNoArgs(Closure(i)) \/ InTimerContext(tree, visited[i].node)

C16_ContextPolicy ==
    \A i \in Visits :
        (options.onlyInLongLivedContexts = Given(TRUE) /\ Matched(i)) =>
            ( visited[i].findings # <<>>
              <=> \/ ArgumentOfCallNamed(tree, visited[i].node,
                                         Range(config.longLivedContexts))
                  \/ InTimerContext(tree, visited[i].node) )

C16_Witness ==
    \E i \in Visits :
        /\ options.onlyInLongLivedContexts = Given(TRUE)
        /\ options.longLivedContexts = Given(<<"myCustomHandler">>)
        /\ Matched(i)
        /\ Closure(i).type = "FunctionExpression"
        /\ InTimerContext(tree, visited[i].node)
        /\ visited[i].findings # <<>>

(***************************************************************************)
(* C17: the name of the enclosing call is read lexically: for every name   *)
(* n, a closure passed to n(...) and the same closure passed to x.n(...)   *)
(* get the same long-lived decision, the same timer decision and the same  *)
(* findings.                                                               *)
(***************************************************************************)
IsBare(callee) == callee.type = "Identifier"
IsQualified(callee) ==
    /\ callee.type = "MemberExpression"
    /\ ~callee.computed
    /\ callee.property.type = "Identifier"

\* n for x.n, x.n for n.
OtherSpelling(callee) ==
    IF IsBare(callee) THEN Method(Target, callee.name)
    ELSE Identifier(callee.property.name)

\* The closure of visit i is an argument of a call n(...) or x.n(...).
C17_Case(i) ==
    LET parent == NodeAt(tree, Front(visited[i].node))
    IN /\ Last(visited[i].node).f = "arguments"
       /\ IsCall(parent)
       /\ IsBare(parent.callee) \/ IsQualified(parent.callee)

C17_LexicalCalleeName ==
    \A i \in Visits :
        C17_Case(i) =>
            LET p == visited[i].node
                callee == NodeAt(tree, Front(p)).callee
                other == ReplaceAt(tree, Append(Front(p), Sel("callee", 0)),
                                   OtherSpelling(callee))
                timer == getTimerContext(tree, p)
                otherTimer == getTimerContext(other, p)
            IN /\ isInLongLivedContext(config, tree, p)
                    = isInLongLivedContext(config, other, p)
               /\ IsNull(timer) = IsNull(otherTimer)
               /\ ~IsNull(timer) => timer.name = otherTimer.name
               /\ Len(visited[i].findings) = Len(Handler(other, p))
               /\ visited[i].findings # <<>> =>
                     visited[i].findings[1].data.replacement
                       = Handler(other, p)[1].data.replacement

C17_Witness ==
    \E i \in Visits :
        /\ C17_Case(i)
        /\ IsQualified(NodeAt(tree, Front(visited[i].node)).callee)
        /\ InTimerContext(tree, visited[i].node)
        /\ ForwardsArgs(Closure(i))
        /\ options.onlyInLongLivedContexts = Given(TRUE)
        /\ options.longLivedContexts = Given(<<>>)
        /\ visited[i].findings # <<>>

(***************************************************************************)
(* C18: only anonymous function values are candidates: a function          *)
(* expression with a name of its own, as in                                *)
(* setTimeout(function tick() { obj.method(); }, 10), is never reported.   *)
(***************************************************************************)
IsNamed(k) == k.type = "FunctionExpression" /\ ~IsNull(k.id)

\* As the claim states it.
C18_NamedNeverReported ==
    \A i \in Visits : IsNamed(Closure(i)) => visited[i].findings = <<>>

\* As amended: a function expression with a name of its own is reported
\* exactly as the same function without the name is.
C18_NamedReportedAsAnonymous ==
    \A i \in Visits :
        IsNamed(Closure(i)) =>
            LET p == visited[i].node
                anonymous == Handler(ReplaceAt(tree, p, [Closure(i) EXCEPT !.id = Null]), p)
            IN /\ Len(visited[i].findings) = Len(anonymous)
               /\ visited[i].findings # <<>> =>
                     visited[i].findings[1].data.replacement
                       = anonymous[1].data.replacement
               /\ ( /\ Matched(i)
                    /\ config.onlyInLongLivedContexts =>
                          \/ ArgumentOfCallNamed(tree, p, Range(config.longLivedContexts))
                          \/ InTimerContext(tree, p) )
                  => Len(visited[i].findings) = 1

C18_Witness ==
    \E i \in Visits :
        /\ IsNamed(Closure(i))
        /\ InTimerContext(tree, visited[i].node)
        /\ Len(NodeAt(tree, Front(visited[i].node)).arguments) = 2
        /\ options.onlyInLongLivedContexts = Given(TRUE)
        /\ visited[i].findings # <<>>

(***************************************************************************)
(* C19: in every run that reaches the analysis of a node, the resolved     *)
(* longLivedContexts is a non-empty list of names: an empty list in the    *)
(* options never becomes the effective configuration.                      *)
(***************************************************************************)
\* As the claim states it.
C19_ResolvedListNonEmpty ==
    visited # <<>> => config.longLivedContexts # <<>>

\* As amended: the resolved list is the one the options supply, an empty
\* one included, and the six default names when they supply none; under
\* an empty list and onlyInLongLivedContexts only timer contexts are
\* reported.
C19_ResolvedListAsSupplied ==
    ~IsNull(config) =>
        /\ config.longLivedContexts
             = (IF options.longLivedContexts = Absent THEN DefaultLongLivedContexts
                ELSE options.longLivedContexts[1])
        /\ config.longLivedContexts = <<>> <=> options.longLivedContexts = Given(<<>>)
        /\ (config.longLivedContexts = <<>> /\ config.onlyInLongLivedContexts) =>
              \A i \in Visits :
                  visited[i].findings # <<>> => InTimerContext(tree, visited[i].node)

C19_Witness ==
    /\ ~IsNull(config)
    /\ options.longLivedContexts = Given(<<>>)
    /\ config.longLivedContexts = <<>>
    /\ config.onlyInLongLivedContexts
    /\ \E i \in Visits : visited[i].findings # <<>>
    /\ \E i \in Visits :
          /\ visited[i].findings = <<>>
          /\ ArgumentOfCallNamed(tree, visited[i].node, Range(DefaultLongLivedContexts))
          /\ ForwardsNoArgs(Closure(i))

(***************************************************************************)
(* C20: a malformed configuration (a longLivedContexts that is not an      *)
(* array of strings, a flag that is not a boolean, an unknown option) is   *)
(* rejected when the configuration is resolved, before any node is         *)
(* analysed, and surfaces as a configuration error; no finding is ever     *)
(* produced under a malformed configuration.                               *)
(***************************************************************************)
IsFlag(value) == "boolean" \in DOMAIN value
IsNameList(value) ==
    /\ "array" \in DOMAIN value
    /\ \A j \in 1..Len(value.array) : "string" \in DOMAIN value.array[j]

WellFormed(object) ==
    /\ DOMAIN object \subseteq OptionNames
    /\ \A key \in DOMAIN object :
          IF key = "longLivedContexts" THEN IsNameList(object[key])
          ELSE IsFlag(object[key])

C20_MalformedConfigRejected ==
    ~WellFormed(userOptions) =>
        /\ phase \in {"config", "configError"}
        /\ IsNull(options)
        /\ IsNull(config)
        /\ todo = <<>>
        /\ visited = <<>>

C20_Witness ==
    /\ ~WellFormed(userOptions)
    /\ "unknownOption" \in DOMAIN userOptions
    /\ phase = "configError"

(***************************************************************************)
(* C21: for every tree and every valid configuration the analysis of a     *)
(* visited function node ends in no finding or in one finding and never    *)
(* raises: wrong arity, a computed property, an unsupported body shape, a  *)
(* disallowed async form and a context mismatch (a parent that is not a    *)
(* call, a callee that is neither an identifier nor a member access) are   *)
(* all plain no-match outcomes.                                            *)
(***************************************************************************)
ParentOf(i) == NodeAt(tree, Front(visited[i].node))

\* Under onlyInLongLivedContexts, the placement of visit i names no context.
ContextMismatch(i) ==
    /\ config.onlyInLongLivedContexts
    /\ \/ ~IsCall(ParentOf(i))
       \/ /\ IsCall(ParentOf(i))
          /\ ParentOf(i).callee.type \notin {"Identifier", "MemberExpression"}

C21_NoMatchIsNoFault ==
    \A i \in Visits :
        /\ Len(visited[i].findings) <= 1
        /\ \A n \in 1..Len(visited[i].findings) :
              /\ "fault" \notin DOMAIN visited[i].findings[n]
              /\ visited[i].findings[n].messageId = "preferBind"
        /\ ( \/ Len(Closure(i).params) # 0
             \/ ~HasForwardedCall(Closure(i))
             \/ (HasForwardedCall(Closure(i))
                   /\ ~TargetsNamedMethod(ForwardedCall(Closure(i))))
             \/ (Closure(i).async /\ ~config.includeAsync)
             \/ ContextMismatch(i) )
           => visited[i].findings = <<>>

C21_Witness ==
    /\ \E i \in Visits :
          /\ ContextMismatch(i)
          /\ IsCall(ParentOf(i))
          /\ Forwards(Closure(i))
          /\ visited[i].findings = <<>>
    /\ Done

(***************************************************************************)
(* C22: findings are independent: in a tree with two or more reported      *)
(* nodes (a reported closure nested in the forwarded arguments or the      *)
(* receiver of another reported closure, say) the spans their suggestions  *)
(* replace do not overlap, so the fixes give the same text in either       *)
(* order.                                                                  *)
(***************************************************************************)
IsReported(i) == visited[i].findings # <<>>
Span(i) == visited[i].findings[1].suggest[1].fix.target
SpanRange(i) == RangeOf(tree, Span(i))
SpanText(i) == visited[i].findings[1].suggest[1].fix.text

Disjoint(r1, r2) == r1[2] < r2[1] \/ r2[2] < r1[1]
Contains(r1, r2) == r1[1] <= r2[1] /\ r2[2] <= r1[2]
IsPrefix(p, q) == Len(p) <= Len(q) /\ SubSeq(q, 1, Len(p)) = p

\* The fix of visit i applied to the text, then the fix of visit j to the
\* result, its range moved by what the first fix added before it.
FirstThen(i, j) ==
    LET ri == SpanRange(i)
        rj == SpanRange(j)
        shift == IF ri[2] < rj[1] THEN Len(SpanText(i)) - (ri[2] - ri[1] + 1) ELSE 0
    IN replaceText(replaceText(text, ri, SpanText(i)),
                   <<rj[1] + shift, rj[2] + shift>>, SpanText(j))

\* As the claim states it.
C22_SpansNeverOverlap ==
    \A i, j \in Visits :
        (i # j /\ IsReported(i) /\ IsReported(j)) =>
            /\ Disjoint(SpanRange(i), SpanRange(j))
            /\ FirstThen(i, j) = FirstThen(j, i)

\* What the suggestion of visit i replaces: the scheduler call when the
\* closure forwards arguments, the closure otherwise.
ReplacedNode(i) ==
    IF ForwardsArgs(Closure(i)) THEN Front(visited[i].node) ELSE visited[i].node

\* The closure of visit j lies inside what the suggestion of visit i replaces.
Within(j, i) == IsPrefix(ReplacedNode(i), visited[j].node)

\* As amended: the spans of two findings are disjoint, and the fixes agree
\* in either order, unless one of the reported closures lies inside what
\* the other finding replaces; then that span contains the other.
C22_SpansDisjointOrNested ==
    \A i, j \in Visits :
        (i # j /\ IsReported(i) /\ IsReported(j)) =>
            IF Within(j, i) THEN Contains(SpanRange(i), SpanRange(j))
            ELSE IF Within(i, j) THEN Contains(SpanRange(j), SpanRange(i))
            ELSE /\ Disjoint(SpanRange(i), SpanRange(j))
                 /\ FirstThen(i, j) = FirstThen(j, i)

C22_Witness ==
    /\ Done
    /\ \E i, j \in Visits :
          /\ i # j /\ IsReported(i) /\ IsReported(j)
          /\ ~Within(i, j) /\ ~Within(j, i)
          /\ InTimerContext(tree, visited[i].node)

(***************************************************************************)
(* C23: a timer context exists only when the closure is the first          *)
(* argument of a call named setTimeout or setInterval.  In any other       *)
(* argument slot of such a call the closure is in a long-lived context     *)
(* (when the name is in longLivedContexts) but has no timer context: a     *)
(* forwarding call with arguments gives no finding there, and one without  *)
(* arguments is rewritten in the base form.                                *)
(***************************************************************************)
LaterTimerArgument(i) ==
    /\ ArgumentOfCallNamed(tree, visited[i].node, Range(timerFunctions))
    /\ Last(visited[i].node).i # 1

C23_TimerContextFirstSlotOnly ==
    \A i \in Visits :
        LET p == visited[i].node
            listed == ArgumentOfCallNamed(tree, p, Range(config.longLivedContexts))
        IN /\ ~IsNull(getTimerContext(tree, p)) => InTimerContext(tree, p)
           /\ ( /\ LaterTimerArgument(i)
                /\ Forwards(Closure(i))
                /\ Closure(i).async => config.includeAsync ) =>
                 /\ IsNull(getTimerContext(tree, p))
                 /\ isInLongLivedContext(config, tree, p) = listed
                 /\ ForwardsArgs(Closure(i)) => visited[i].findings = <<>>
                 /\ ( /\ ForwardsNoArgs(Closure(i))
                      /\ config.onlyInLongLivedContexts => listed ) =>
                       /\ Len(visited[i].findings) = 1
                       /\ visited[i].findings[1].node = p
                       /\ visited[i].findings[1].suggest[1].fix.target = p
                       /\ visited[i].findings[1].data.replacement
                            = BindTextOf(text, tree, p)

C23_Witness ==
    \E i \in Visits :
        /\ LaterTimerArgument(i)
        /\ ForwardsNoArgs(Closure(i))
        /\ options.onlyInLongLivedContexts = Given(TRUE)
        /\ options.longLivedContexts = Absent
        /\ visited[i].findings # <<>>

(***************************************************************************)
(* C24: the decision and the replacement for a node are a function of the  *)
(* node's body, its immediate parent and the configuration alone: the      *)
(* outcome is the same whatever was visited before, in whatever order,     *)
(* and analysing a node changes nothing a later analysis reads.            *)
(***************************************************************************)
\* The outcome of the handler on the closure's parent alone, cut out of the
\* tree: what the closure's body and immediate parent determine.
LocalOutcome(i) == Handler(ParentOf(i), <<Last(visited[i].node)>>)

C24_LocalAndStateless ==
    \A i \in Visits :
        LET found == visited[i].findings
            local == LocalOutcome(i)
        IN /\ found = Handler(tree, visited[i].node)
           /\ Len(found) = Len(local)
           /\ found # <<>> =>
                 /\ found[1].data.replacement = local[1].data.replacement
                 /\ found[1].suggest[1].fix.text = local[1].suggest[1].fix.text
                 /\ (found[1].node = visited[i].node)
                      <=> (local[1].node = <<Last(visited[i].node)>>)

C24_Witness ==
    \E i, j \in Visits :
        /\ j < i
        /\ IsReported(j)
        /\ IsPrefix(visited[j].node, visited[i].node)
        /\ config.onlyInLongLivedContexts
        /\ ~IsReported(i)
        /\ Forwards(Closure(i))

(***************************************************************************)
(* C25: every reported node stands in expression position: the function    *)
(* value of a method, getter or setter is never reported, and the text a   *)
(* suggestion produces is a program again.                                 *)
(***************************************************************************)
IsMethodValue(i) == ParentOf(i).type = "Property"

C25_ReportedInExpressionPosition ==
    /\ \A i \in Visits : IsReported(i) => ~IsMethodValue(i)
    /\ AfterFix => tree # SyntaxError

(***************************************************************************)
(* C26: the name of the enclosing call is read off a bare identifier or    *)
(* the last segment of a non-computed access only: a closure that is an    *)
(* argument of a call with a computed callee has neither a long-lived      *)
(* context nor a timer context.                                            *)
(***************************************************************************)
HasComputedCallee(i) ==
    /\ IsCall(ParentOf(i))
    /\ Last(visited[i].node).f = "arguments"
    /\ ParentOf(i).callee.type = "MemberExpression"
    /\ ParentOf(i).callee.computed

C26_ComputedCalleeGivesNoContext ==
    \A i \in Visits :
        HasComputedCallee(i) =>
            /\ ~isInLongLivedContext(config, tree, visited[i].node)
            /\ IsNull(getTimerContext(tree, visited[i].node))

\* The tree with the callee of the call around visit i written with a dot.
Dotted(i) ==
    ReplaceAt(tree, Append(Front(visited[i].node), Sel("callee", 0)),
              [ParentOf(i).callee EXCEPT !.computed = FALSE])

\* C26 as amended: a computed callee whose property is an identifier names
\* the call as the dotted access does (same long-lived context, same timer
\* context, same finding); one whose property is no identifier names nothing.
C26_ComputedCalleeNamedByProperty ==
    \A i \in Visits :
        HasComputedCallee(i) =>
            LET p == visited[i].node
                property == ParentOf(i).callee.property
                timer == getTimerContext(tree, p)
            IN IF property.type = "Identifier"
               THEN /\ isInLongLivedContext(config, tree, p)
                         = isInLongLivedContext(config, Dotted(i), p)
                    /\ isInLongLivedContext(config, tree, p)
                         = (property.name \in Range(config.longLivedContexts))
                    /\ IsNull(timer) = IsNull(getTimerContext(Dotted(i), p))
                    /\ ~IsNull(timer) =>
                          /\ timer.name = property.name
                          /\ timer.name = getTimerContext(Dotted(i), p).name
                    /\ Len(visited[i].findings) = Len(Handler(Dotted(i), p))
                    /\ IsReported(i) =>
                          SpanText(i) = Handler(Dotted(i), p)[1].suggest[1].fix.text
               ELSE /\ ~isInLongLivedContext(config, tree, p)
                    /\ IsNull(timer)

C26_Witness ==
    \E i \in Visits :
        /\ HasComputedCallee(i)
        /\ config.onlyInLongLivedContexts
        /\ IsReported(i)
        /\ ~IsNull(getTimerContext(tree, visited[i].node))
        /\ ForwardsArgs(Closure(i))

(***************************************************************************)
(* C27: the timer-form replacement is a call of the scheduler with exactly *)
(* the bind expression, the delay and the forwarded arguments in order;    *)
(* arguments the original scheduler call had after the delay are not in    *)
(* the replacement, which overwrites the whole call.                       *)
(***************************************************************************)
\* <receiver>.<method>.bind(<receiver>) for the closure of visit i.
BindNodeOf(i) ==
    LET callee == ForwardedCall(Closure(i)).callee
    IN CallExpression(MemberExpression(callee, Identifier("bind"), FALSE),
                      <<callee.object>>)

DelayNodeOf(i) ==
    IF Len(ParentOf(i).arguments) >= 2 THEN ParentOf(i).arguments[2] ELSE Literal("0")

\* The scheduler call of visit i has arguments after the delay.
HasExtras(i) == Len(ParentOf(i).arguments) >= 3

C27_TimerFormArgumentList ==
    /\ \A i \in Visits :
          (TimerForm(i) /\ IsReported(i)) =>
              LET call == ParseExpr(SpanText(i)).node
              IN /\ Span(i) = Front(visited[i].node)
                 /\ call = CallExpression(Identifier(SchedulerName(visited[i].node)),
                                          <<BindNodeOf(i), DelayNodeOf(i)>>
                                          \o ForwardedCall(Closure(i)).arguments)
                 /\ HasExtras(i) =>
                       \A j \in 3..Len(ParentOf(i).arguments) :
                           /\ ParentOf(i).arguments[j] \notin Range(call.arguments)
                           /\ Range(getText(ParentOf(i).arguments[j]))
                                 \cap Range(SpanText(i)) = {}
    /\ (AfterFix /\ ForwardsArgs(AppliedClosure)) =>
          Len(NodeAt(tree, AppliedSpan).arguments)
              = 2 + Len(ForwardedCall(AppliedClosure).arguments)

C27_Witness ==
    /\ AfterFix
    /\ ForwardsArgs(AppliedClosure)
    /\ Len(NodeAt(before.tree, AppliedSpan).arguments) = 3
    /\ "extra" \in Range(before.text)
    /\ "extra" \notin Range(text)

(***************************************************************************)
(* C28: a supplied longLivedContexts list replaces the default list: with  *)
(* ["myCustomHandler"] and onlyInLongLivedContexts true, a forwarding      *)
(* closure without arguments passed to myCustomHandler is reported and one *)
(* passed to addEventListener, on, once or subscribe is not.               *)
(***************************************************************************)
CustomListOnly ==
    /\ options.longLivedContexts = Given(<<"myCustomHandler">>)
    /\ options.onlyInLongLivedContexts = Given(TRUE)

C28_Case(i) ==
    /\ CustomListOnly
    /\ ForwardsNoArgs(Closure(i))
    /\ Closure(i).async => config.includeAsync

C28_CustomListReplacesDefault ==
    ~IsNull(config) =>
        /\ options.longLivedContexts = Given(<<"myCustomHandler">>) =>
              config.longLivedContexts = <<"myCustomHandler">>
        /\ \A i \in Visits :
              C28_Case(i) =>
                  /\ ArgumentOfCallNamed(tree, visited[i].node, {"myCustomHandler"}) =>
                        /\ Len(visited[i].findings) = 1
                        /\ SpanText(i) = BindTextOf(text, tree, visited[i].node)
                  /\ ArgumentOfCallNamed(tree, visited[i].node,
                                         {"addEventListener", "on", "once", "subscribe"}) =>
                        visited[i].findings = <<>>

C28_Witness ==
    /\ ~IsNull(config)
    /\ \E i \in Visits :
          /\ C28_Case(i)
          /\ ArgumentOfCallNamed(tree, visited[i].node, {"once"})
          /\ ~IsReported(i)

(***************************************************************************)
(* C29: for a closure with a block body the arrow-function check and the   *)
(* function-expression check agree: with the same body, parent, async flag *)
(* and configuration, an arrow function and a non-generator function       *)
(* expression give the same decision, the same replacement text and the    *)
(* same replaced node (the closure or the enclosing scheduler call).       *)
(***************************************************************************)
\* The closure written as the other kind of function, all else the same.
OtherKind(k) ==
    IF k.type = "ArrowFunctionExpression"
    THEN FunctionExpression(Null, k.params, k.async, FALSE, k.body)
    ELSE ArrowFunctionExpression(k.params, k.async, k.body)

C29_Case(i) == Closure(i).body.type = "BlockStatement" /\ ~Closure(i).generator

C29_ArrowAndFunctionAgree ==
    \A i \in Visits :
        C29_Case(i) =>
            LET p == visited[i].node
                other == ReplaceAt(tree, p, OtherKind(Closure(i)))
                findings == Handler(other, p)
            IN /\ NodeAt(other, p).type # Closure(i).type
               /\ Len(findings) = Len(visited[i].findings)
               /\ IsReported(i) =>
                     /\ findings[1].data.replacement
                           = visited[i].findings[1].data.replacement
                     /\ findings[1].suggest[1].fix.text = SpanText(i)
                     /\ findings[1].suggest[1].fix.target = Span(i)
                     /\ findings[1].node = visited[i].findings[1].node

C29_Witness ==
    \E i \in Visits :
        /\ C29_Case(i)
        /\ Closure(i).type = "FunctionExpression"
        /\ Closure(i).async
        /\ Closure(i).body.body[1].expression.type = "AwaitExpression"
        /\ IsReported(i)
        /\ Span(i) # visited[i].node

(***************************************************************************)
(* C30: on each visited node the stages run in order, each only if the     *)
(* one before succeeded: the context of the node is examined only after    *)
(* its body is recognized as a forwarding call, the rewrite is built only  *)
(* after the context allows it, the finding is emitted last, and a node    *)
(* gets at most one finding.                                               *)
(***************************************************************************)
Calls(i) == visited[i].calls
ContextCalls == {"getTimerContext", "isInLongLivedContext"}
Before(i, a, n) == \E m \in 1..(n - 1) : Calls(i)[m] = a

RewriteAndReportLast(i) ==
    /\ Len(visited[i].findings) <= 1
    /\ IsReported(i) <=> "context.report" \in Range(Calls(i))
    /\ \A n \in 1..Len(Calls(i)) :
          /\ Calls(i)[n] = "context.report" =>
                n = Len(Calls(i)) /\ Before(i, "getSourceText", n)
          /\ Calls(i)[n] = "getSourceText" =>
                /\ Before(i, "getTimerContext", n) /\ Before(i, "getMethodCall", n)
                /\ config.onlyInLongLivedContexts =>
                      /\ Before(i, "isInLongLivedContext", n)
                      /\ \/ ArgumentOfCallNamed(tree, visited[i].node,
                                                Range(config.longLivedContexts))
                         \/ InTimerContext(tree, visited[i].node)

C30_ContextAfterForwardingCall ==
    \A i \in Visits :
        /\ RewriteAndReportLast(i)
        /\ \A n \in 1..Len(Calls(i)) :
              Calls(i)[n] \in ContextCalls =>
                  /\ Before(i, "getMethodCall", n)
                  /\ Forwards(Closure(i))

\* C30 as amended: the timer context is looked up once the body is a single
\* call, before that call is tested for being a method call (the test
\* takes the timer context to allow arguments); the long-lived context is
\* looked up only after the method call is recognized.
C30_StagesInOrder ==
    \A i \in Visits :
        /\ RewriteAndReportLast(i)
        /\ Calls(i) # <<>> =>
              /\ Calls(i)[1] = "getTimerContext"
              /\ Calls(i)[2] = "getMethodCall"
              /\ ShapeMatches(Closure(i))
              /\ Closure(i).async => config.includeAsync
        /\ \A n \in 1..Len(Calls(i)) :
              /\ Calls(i)[n] = "getTimerContext" => n = 1
              /\ Calls(i)[n] = "getMethodCall" => n = 2
              /\ Calls(i)[n] = "isInLongLivedContext" =>
                    /\ n = 3
                    /\ config.onlyInLongLivedContexts
                    /\ Matched(i)
              /\ Calls(i)[n] = "reportPreferBind" =>
                    /\ Matched(i)
                    /\ n = IF config.onlyInLongLivedContexts THEN 4 ELSE 3

C30_Witness ==
    \E i \in Visits :
        /\ Calls(i) = <<"getTimerContext", "getMethodCall">>
        /\ InTimerContext(tree, visited[i].node)
        /\ ~Forwards(Closure(i))
        /\ ~IsReported(i)
====
